---------------------------- MODULE Spec2Model ----------------------------
(***************************************************************************)
(* A model of the QUIC listener (Listener, connsMap) and of the            *)
(* per-connection connection-ID state (connIDState).                       *)
(*                                                                         *)
(* Connection IDs and reset tokens are small naturals.  0 stands for the   *)
(* zero-length connection ID and for the all-zero reset token.  A Conn is  *)
(* a natural in Conns; NoConn stands for a nil *Conn.                      *)
(*                                                                         *)
(* Every handler of a Conn runs on the Conn's own goroutine and is one     *)
(* action here; the receive loop handles one datagram per action.          *)
(* Closures queued with connsMap.updateConnIDs are records, applied by the *)
(* receive loop.                                                           *)
(***************************************************************************)
EXTENDS Integers, Sequences, FiniteSets, TLC

\* ------------------------------------------------------------------ bounds
MaxConns == 2          \* Conn objects ever created by one listener
MaxLocalSeq == 2       \* nextLocalSeq stops growing here
MaxPeerLimit == 2      \* active_connection_id_limit values 0..MaxPeerLimit
MaxPeerCIDs == 1       \* distinct client-chosen transient destination CIDs
MaxRemoteSeq == 2      \* sequence numbers of NEW_CONNECTION_ID frames
MaxRemoteCIDs == 2     \* distinct connection IDs the peer issues
MaxUpdates == 2        \* closures waiting in connsMap.updates
MaxClosers == 2        \* goroutines that call Listener.Close
MaxLocalSeqOne == 6    \* as MaxLocalSeq, for a Conn checked alone
MaxPeerLimitOne == 5   \* as MaxPeerLimit, for a Conn checked alone
MaxRoom == 1           \* connection ID frames that fit in one packet
MaxLongSeq == 8        \* as MaxRemoteSeq, for frames that arrive in order
MaxEnqueued == 3       \* closures passed to updateConnIDs one step at a time
MaxPnum == 2           \* packet numbers of the packets that carry frames
MaxLocalSeqSend == 3   \* as MaxLocalSeq, for a Conn that sends its frames

\* ------------------------------------------------------- program constants
activeConnIDLimit == 2
maxPeerActiveConnIDLimit == 4

NoConn == 0
Conns == 1..MaxConns
Closers == 1..MaxClosers

Min(a, b) == IF a < b THEN a ELSE b
Max(a, b) == IF a > b THEN a ELSE b

VARIABLES
  conns,         \* Listener.conns
  closing,       \* Listener.closing
  udpClosed,     \* l.udpConn.Close() has been called
  closec,        \* Listener.closec is closed: the listen loop has exited
  closePc,       \* where each caller of Listener.Close is
  connState,     \* lifetime of each Conn object
  side,          \* Conn.side
  connIDState,   \* Conn.connIDState
  byConnID,      \* connsMap.byConnID
  byResetToken,  \* connsMap.byResetToken
  updates,       \* connsMap.updates
  updateNeeded,  \* connsMap.updateNeeded
  nextCID,       \* the next value newRandomConnID returns
  config,        \* Listener.config, as far as the listener reads it
  lastDgram,     \* what the receive loop did in the step just taken
  rcvd,          \* the datagram it read in that step, <<>> when none
  sent,          \* the datagrams the listener sent in that step
  disposal,      \* what became of the buffer of the datagram it read
  updateMu,      \* connsMap.updateMu: <<>> when free, else its holder
  connPc,        \* where each Conn is inside connsMap.updateConnIDs
  connF,         \* the closure each Conn is passing to updateConnIDs
  loopPc,        \* where the receive loop is inside one turn of listen
  loopI,         \* the index the loop of applyUpdates has reached
  ran,           \* the closures that were executed, in order
  returned,      \* the closures whose updateConnIDs call has returned
  mustSee        \* returned, as it was when the loop last read updateNeeded

vars == <<conns, closing, udpClosed, closec, closePc, connState, side,
          connIDState, byConnID, byResetToken, updates, updateNeeded,
          nextCID, config, lastDgram, rcvd, sent, disposal, updateMu, connPc,
          connF, loopPc, loopI, ran, returned, mustSee>>

listenerVars == <<conns, closing, udpClosed, closec, closePc>>
stepVars == <<updateMu, connPc, connF, loopPc, loopI, ran, returned, mustSee>>
mapVars == <<byConnID, byResetToken>>


\* ------------------------------------------------------------- sentVal
\* The state of one piece of information to send: unset, unsent, sent in
\* packet pnum, or received (acked) by the peer.
sentValUnset == [st |-> "unset", pnum |-> 0]

setUnsent(v) == [st |-> "unsent", pnum |-> 0]

setSent(v, pnum) == [st |-> "sent", pnum |-> pnum]

shouldSendPTO(v, pto) == v.st = "unsent" \/ (pto /\ v.st = "sent")

ackOrLoss(v, pnum, fate) ==
  IF fate = "acked" THEN [st |-> "received", pnum |-> 0]
  ELSE IF v = [st |-> "sent", pnum |-> pnum] THEN [st |-> "unsent", pnum |-> 0]
  ELSE v

\* ------------------------------------------------------------- connID
connID(cid, seq) ==
  [cid |-> cid, seq |-> seq, retired |-> FALSE, send |-> sentValUnset]

remoteConnID(cid, seq, token) ==
  [cid |-> cid, seq |-> seq, retired |-> FALSE, send |-> sentValUnset,
   resetToken |-> token]

\* The zero value of a remoteConnID: what a fresh array slot holds.
zeroRemoteConnID == remoteConnID(0, 0, 0)

\* The zero value of connIDState.  remote is the backing array of the Go
\* slice s.remote (its length is the slice's capacity) and remoteLen is the
\* slice's length: closures hold pointers into the array.
\* heard is not a field of the struct.  It says that the receive loop has
\* handed the Conn a datagram since the Conn last wrote connection ID frames
\* into a packet: only then can the Conn have the peer's ack of that packet.
zeroConnIDState ==
  [local |-> <<>>, remote |-> <<>>, remoteLen |-> 0,
   nextLocalSeq |-> 0, retireRemotePriorTo |-> 0,
   peerActiveConnIDLimit |-> 0,
   originalDstConnID |-> 0, retrySrcConnID |-> 0,
   needSend |-> FALSE, heard |-> TRUE]

\* The receive loop hands Conn c a datagram (c.sendMsg).
hears(s, x, o) ==
  IF o.what = "sendMsg" /\ o.to = x THEN [s EXCEPT !.heard = TRUE] ELSE s

\* s.remote as the slice the code sees.
Remote(s) == SubSeq(s.remote, 1, s.remoteLen)

\* Removing element i of a sequence: append(x[:i], x[i+1:]...) as a value.
RemoveAt(x, i) == SubSeq(x, 1, i - 1) \o SubSeq(x, i + 1, Len(x))

\* append(s.remote, e): the array is reused while it has room; otherwise a
\* new array of twice the capacity is allocated and the elements copied.
growCap(cap) == IF cap = 0 THEN 1 ELSE 2 * cap

appendRemote(s, e) ==
  IF s.remoteLen < Len(s.remote)
  THEN [s EXCEPT !.remote[s.remoteLen + 1] = e, !.remoteLen = s.remoteLen + 1]
  ELSE [s EXCEPT
          !.remote = [i \in 1..growCap(Len(s.remote)) |->
                        IF i <= s.remoteLen THEN s.remote[i]
                        ELSE IF i = s.remoteLen + 1 THEN e
                        ELSE zeroRemoteConnID],
          !.remoteLen = s.remoteLen + 1]

\* Whether append(s.remote, e) allocates a new array.
appendReallocates(s) == s.remoteLen = Len(s.remote)

\* append(s.remote[:i], s.remote[i+1:]...): the tail is moved down inside the
\* same array; the slot past the new end keeps its old value.
removeRemote(s, i) ==
  [s EXCEPT
     !.remote = [j \in 1..Len(s.remote) |->
                   IF j >= i /\ j < s.remoteLen THEN s.remote[j + 1]
                   ELSE s.remote[j]],
     !.remoteLen = s.remoteLen - 1]

\* ------------------------------------------------------ queued closures
\* A closure passed to connsMap.updateConnIDs.  kind says what it does when
\* it runs; rcid is the array index a captured *remoteConnID points at.
closure(kind, c, cids, tokens, rcid) ==
  [kind |-> kind, c |-> c, cids |-> cids, tokens |-> tokens, rcid |-> rcid]

\* The closure of handleNewConnID (lines 302-304) that unregisters the
\* token of the entry rcid points at.  It holds the pointer only; own
\* records the token the entry had when the closure was made.
retireAt(c, i, own) ==
  closure("retireResetTokenAt", c, <<>>, <<>>, i) @@ [own |-> own]

\* The result of a connIDState method: the new state, the closures it passed
\* to updateConnIDs in order, and the error it returned ("nil" for none).
result(s, q, err) == [s |-> s, q |-> q, err |-> err]


\* The array slots of Conn c that a queued closure points at.
pointedAt(q, c) ==
  {q[k].rcid : k \in {j \in 1..Len(q) :
                        q[j].kind = "retireResetTokenAt" /\ q[j].c = c}}

\* A slot past len(s.remote) that no queued closure points at is never read
\* again: append writes a slot before the slice reaches it.  The model
\* holds the zero value there.
forget(s, c, q) ==
  [s EXCEPT !.remote = [j \in 1..Len(s.remote) |->
                          IF j > s.remoteLen /\ j \notin pointedAt(q, c)
                          THEN zeroRemoteConnID ELSE s.remote[j]]]

\* ------------------------------------------------------- connIDState
\* Every method below takes the receiver s and the Conn c, and returns a
\* result.  next is the value the next call of Conn.newConnID returns.

initClient(s, c, next) ==
  LET locid == next
      remid == next + 1
      s1 == [s EXCEPT !.local = Append(s.local, connID(locid, 0)),
                      !.nextLocalSeq = 1]
      s2 == appendRemote(s1, remoteConnID(remid, -1, 0))
  IN result([s2 EXCEPT !.originalDstConnID = remid],
            <<closure("addConnID", c, <<locid>>, <<>>, 0)>>, "nil")

\* initServer that registers only the connection ID it chose.
initServer_RegistersOnlyOwn(s, c, dstConnID, next) ==
  LET locid == next
      s1 == [s EXCEPT !.local = s.local \o <<connID(dstConnID, -1),
                                              connID(locid, 0)>>,
                      !.nextLocalSeq = 1]
  IN result(s1, <<closure("addConnID", c, <<locid>>, <<>>, 0)>>, "nil")

initServer(s, c, dstConnID, next) ==
  LET locid == next
      s1 == [s EXCEPT !.local = s.local \o <<connID(dstConnID, -1),
                                              connID(locid, 0)>>,
                      !.nextLocalSeq = 1]
  IN result(s1, <<closure("addConnID", c, <<dstConnID, locid>>, <<>>, 0)>>,
            "nil")

srcConnID(s) ==
  IF s.local[1].seq = -1 /\ Len(s.local) > 1 THEN s.local[2].cid
  ELSE s.local[1].cid

\* The index of the first non-retired element of s.remote, 0 when none.
firstActiveRemote(s) ==
  LET live == {i \in 1..s.remoteLen : ~s.remote[i].retired}
  IN IF live = {} THEN 0 ELSE CHOOSE i \in live : \A j \in live : i <= j

dstConnID(s) ==
  IF firstActiveRemote(s) = 0 THEN [cid |-> 0, ok |-> FALSE]
  ELSE [cid |-> s.remote[firstActiveRemote(s)].cid, ok |-> TRUE]

isValidStatelessResetToken(s, resetToken) ==
  /\ firstActiveRemote(s) # 0
  /\ s.remote[firstActiveRemote(s)].resetToken = resetToken

\* The local IDs issueLocalIDs counts against the peer's limit.
countedLocal(s) ==
  Cardinality({i \in 1..Len(s.local) :
                 s.local[i].seq # -1 /\ ~s.local[i].retired})

\* toIssue without the cap of maxPeerActiveConnIDLimit.
toIssue_NoCap(s) == s.peerActiveConnIDLimit - countedLocal(s)

toIssue(s) ==
  Min(s.peerActiveConnIDLimit, maxPeerActiveConnIDLimit) - countedLocal(s)

issuedLocalID(cid, seq) ==
  [connID(cid, seq) EXCEPT !.send = setUnsent(sentValUnset)]

\* issueLocalIDs without s.nextLocalSeq++.
issueLocalIDs_NoIncrement(s, c, next) ==
  LET n == Max(toIssue(s), 0)
      newIDs == [k \in 1..n |-> next + k - 1]
      s1 == [s EXCEPT
               !.local = s.local \o
                   [k \in 1..n |-> issuedLocalID(newIDs[k], s.nextLocalSeq)],
               !.needSend = IF n > 0 THEN TRUE ELSE s.needSend]
  IN result(s1, <<closure("addConnID", c, newIDs, <<>>, 0)>>, "nil")

issueLocalIDs(s, c, next) ==
  LET n == Max(toIssue(s), 0)
      newIDs == [k \in 1..n |-> next + k - 1]
      s1 == [s EXCEPT
               !.local = s.local \o
                   [k \in 1..n |-> issuedLocalID(newIDs[k],
                                                 s.nextLocalSeq + k - 1)],
               !.nextLocalSeq = s.nextLocalSeq + n,
               !.needSend = IF n > 0 THEN TRUE ELSE s.needSend]
  IN result(s1, <<closure("addConnID", c, newIDs, <<>>, 0)>>, "nil")

setPeerActiveConnIDLimit(s, c, lim, next) ==
  issueLocalIDs([s EXCEPT !.peerActiveConnIDLimit = lim], c, next)

\* p is the peer's transportParameters; p.statelessResetToken is -1 when
\* the parameter is absent.
\* validateTransportParameters that installs the peer's token before it
\* compares initial_source_connection_id and looks at the side.
validateTransportParameters_TokenFirst(s, c, sd, p) ==
  IF s.originalDstConnID # p.originalDstConnID
  THEN result(s, <<>>, "TRANSPORT_PARAMETER_ERROR")
  ELSE LET s1 == [s EXCEPT !.originalDstConnID = 0] IN
  IF p.retrySrcConnID # s1.retrySrcConnID
  THEN result(s1, <<>>, "TRANSPORT_PARAMETER_ERROR")
  ELSE LET s2 == [s1 EXCEPT !.retrySrcConnID = 0] IN
  IF s2.remoteLen = 0 \/ s2.remote[1].seq # 0
  THEN result(s2, <<>>, "INTERNAL_ERROR")
  ELSE LET has == p.statelessResetToken # -1
           s3 == IF has
                 THEN [s2 EXCEPT !.remote[1].resetToken = p.statelessResetToken]
                 ELSE s2
           q3 == IF has
                 THEN <<closure("addResetToken", c, <<>>,
                                <<p.statelessResetToken>>, 0)>>
                 ELSE <<>>
       IN
  IF p.initialSrcConnID # s3.remote[1].cid
  THEN result(s3, q3, "TRANSPORT_PARAMETER_ERROR")
  ELSE IF has /\ sd = "server"
  THEN result(s3, q3, "TRANSPORT_PARAMETER_ERROR")
  ELSE result(s3, q3, "nil")

validateTransportParameters(s, c, sd, p) ==
  IF s.originalDstConnID # p.originalDstConnID
  THEN result(s, <<>>, "TRANSPORT_PARAMETER_ERROR")
  ELSE LET s1 == [s EXCEPT !.originalDstConnID = 0] IN
  IF p.retrySrcConnID # s1.retrySrcConnID
  THEN result(s1, <<>>, "TRANSPORT_PARAMETER_ERROR")
  ELSE LET s2 == [s1 EXCEPT !.retrySrcConnID = 0] IN
  IF s2.remoteLen = 0 \/ s2.remote[1].seq # 0
  THEN result(s2, <<>>, "INTERNAL_ERROR")
  ELSE IF p.initialSrcConnID # s2.remote[1].cid
  THEN result(s2, <<>>, "TRANSPORT_PARAMETER_ERROR")
  ELSE IF p.statelessResetToken # -1
  THEN IF sd = "server"
       THEN result(s2, <<>>, "TRANSPORT_PARAMETER_ERROR")
       ELSE result([s2 EXCEPT !.remote[1].resetToken = p.statelessResetToken],
                   <<closure("addResetToken", c, <<>>,
                             <<p.statelessResetToken>>, 0)>>, "nil")
  ELSE result(s2, <<>>, "nil")

handlePacket(s, c, sd, ptype, src) ==
  IF ptype = "initial" /\ sd = "client"
  THEN IF s.remoteLen = 1 /\ s.remote[1].seq = -1
       THEN result([s EXCEPT !.remote[1] = remoteConnID(src, 0, 0)],
                   <<>>, "nil")
       ELSE result(s, <<>>, "nil")
  ELSE IF ptype = "initial" /\ sd = "server"
  THEN IF s.remoteLen = 0
       THEN result(appendRemote(s, remoteConnID(src, 0, 0)), <<>>, "nil")
       ELSE result(s, <<>>, "nil")
  ELSE IF ptype = "handshake" /\ sd = "server"
  THEN IF Len(s.local) > 0 /\ s.local[1].seq = -1 /\ ~s.local[1].retired
       THEN result([s EXCEPT !.local = Tail(s.local)],
                   <<closure("retireConnID", c, <<s.local[1].cid>>, <<>>, 0)>>,
                   "nil")
       ELSE result(s, <<>>, "nil")
  ELSE result(s, <<>>, "nil")

\* Panics unless remote holds exactly the transient ID.
handleRetryPacket(s, src) ==
  [s EXCEPT !.retrySrcConnID = src, !.remote[1].cid = src]

retireRemote(s, i) ==
  [s EXCEPT !.remote[i].retired = TRUE,
            !.remote[i].send = setUnsent(s.remote[i].send),
            !.needSend = TRUE]


\* The loop body without `have = true`.
newConnIDLoopBody_NeverHave(st, c, i, f) ==
  LET s == st.s
      retire == /\ ~s.remote[i].retired
                /\ s.remote[i].seq >= 0
                /\ s.remote[i].seq < s.retireRemotePriorTo
      s1 == IF retire THEN retireRemote(s, i) ELSE s
      q1 == IF retire
            THEN Append(st.q, retireAt(c, i, s.remote[i].resetToken))
            ELSE st.q
      active1 == IF ~s1.remote[i].retired THEN st.active + 1 ELSE st.active
  IN IF s1.remote[i].seq = f.seq /\ s1.remote[i].cid # f.cid
     THEN [s |-> s1, active |-> active1, have |-> st.have, q |-> q1,
           err |-> "PROTOCOL_VIOLATION"]
     ELSE [s |-> s1, active |-> active1, have |-> st.have, q |-> q1,
           err |-> "nil"]

\* The loop body without the comparison of the connection IDs.
newConnIDLoopBody_NoCidCheck(st, c, i, f) ==
  LET s == st.s
      retire == /\ ~s.remote[i].retired
                /\ s.remote[i].seq >= 0
                /\ s.remote[i].seq < s.retireRemotePriorTo
      s1 == IF retire THEN retireRemote(s, i) ELSE s
      q1 == IF retire
            THEN Append(st.q, retireAt(c, i, s.remote[i].resetToken))
            ELSE st.q
      active1 == IF ~s1.remote[i].retired THEN st.active + 1 ELSE st.active
  IN [s |-> s1, active |-> active1,
      have |-> (st.have \/ s1.remote[i].seq = f.seq), q |-> q1,
      err |-> "nil"]

\* One iteration of the loop over s.remote in handleNewConnID.  st holds the
\* receiver, the loop's locals (active, have), the closures queued so far
\* and the error the loop returned with ("nil" while it runs).
newConnIDLoopBody(st, c, i, f) ==
  LET s == st.s
      retire == /\ ~s.remote[i].retired
                /\ s.remote[i].seq >= 0
                /\ s.remote[i].seq < s.retireRemotePriorTo
      s1 == IF retire THEN retireRemote(s, i) ELSE s
      q1 == IF retire
            THEN Append(st.q, retireAt(c, i, s.remote[i].resetToken))
            ELSE st.q
      active1 == IF ~s1.remote[i].retired THEN st.active + 1 ELSE st.active
  IN IF s1.remote[i].seq = f.seq /\ s1.remote[i].cid # f.cid
     THEN [s |-> s1, active |-> active1, have |-> st.have, q |-> q1,
           err |-> "PROTOCOL_VIOLATION"]
     ELSE [s |-> s1, active |-> active1,
           have |-> (st.have \/ s1.remote[i].seq = f.seq), q |-> q1,
           err |-> "nil"]

RECURSIVE newConnIDLoop(_, _, _, _, _)
newConnIDLoop(st, c, i, n, f) ==
  IF i > n \/ st.err # "nil" THEN st
  ELSE newConnIDLoop(newConnIDLoopBody(st, c, i, f), c, i + 1, n, f)

\* The closures of Conn c in q that hold a pointer into the array arr, once
\* arr is no longer the array of s.remote: nothing writes to arr again, so
\* each of them reads what arr holds now.
detach(q, c, arr) ==
  [k \in 1..Len(q) |->
     IF q[k].kind = "retireResetTokenAt" /\ q[k].c = c
     THEN closure("retireResetToken", c, <<>>,
                  <<arr[q[k].rcid].resetToken>>, 0) @@ [own |-> q[k].own]
     ELSE q[k]]

\* newConnIDAppend that registers the token of an ID it retires at once.
newConnIDAppend_RegistersRetired(st, c, f) ==
  LET s1 == appendRemote(st.s, remoteConnID(f.cid, f.seq, f.token))
      moved == appendReallocates(st.s)
      q1 == IF moved THEN detach(st.q, c, st.s.remote) ELSE st.q
      q2 == Append(q1, closure("addResetToken", c, <<>>, <<f.token>>, 0))
  IN IF f.seq < s1.retireRemotePriorTo
     THEN [s |-> retireRemote(s1, s1.remoteLen), active |-> st.active,
           q |-> q2, moved |-> moved, old |-> st.s.remote]
     ELSE [s |-> s1, active |-> st.active + 1, q |-> q2,
           moved |-> moved, old |-> st.s.remote]

\* The part of handleNewConnID that adds an ID not seen before.  The result
\* also says whether append moved s.remote to a new array (moved) and what
\* the old array held then (old).
\* newConnIDAppend that also retires an ID whose seq equals
\* retireRemotePriorTo.
newConnIDAppend_RetiresAtBound(st, c, f) ==
  LET s1 == appendRemote(st.s, remoteConnID(f.cid, f.seq, f.token))
      moved == appendReallocates(st.s)
      q1 == IF moved THEN detach(st.q, c, st.s.remote) ELSE st.q
  IN IF f.seq <= s1.retireRemotePriorTo
     THEN [s |-> retireRemote(s1, s1.remoteLen), active |-> st.active,
           q |-> q1, moved |-> moved, old |-> st.s.remote]
     ELSE [s |-> s1, active |-> st.active + 1,
           q |-> Append(q1, closure("addResetToken", c, <<>>,
                                    <<f.token>>, 0)),
           moved |-> moved, old |-> st.s.remote]

newConnIDAppend(st, c, f) ==
  LET s1 == appendRemote(st.s, remoteConnID(f.cid, f.seq, f.token))
      moved == appendReallocates(st.s)
      q1 == IF moved THEN detach(st.q, c, st.s.remote) ELSE st.q
  IN IF f.seq < s1.retireRemotePriorTo
     THEN [s |-> retireRemote(s1, s1.remoteLen), active |-> st.active,
           q |-> q1, moved |-> moved, old |-> st.s.remote]
     ELSE [s |-> s1, active |-> st.active + 1,
           q |-> Append(q1, closure("addResetToken", c, <<>>,
                                    <<f.token>>, 0)),
           moved |-> moved, old |-> st.s.remote]

\* The assignment without the comparison.
bumpRetireRemotePriorTo_Assign(s, retire) ==
  [s EXCEPT !.retireRemotePriorTo = retire]

\* Lines 292-294: retireRemotePriorTo only moves up.
bumpRetireRemotePriorTo(s, retire) ==
  IF retire > s.retireRemotePriorTo
  THEN [s EXCEPT !.retireRemotePriorTo = retire]
  ELSE s

\* Lines 341-356: the error the two limit checks return, given the count of
\* active IDs and len(s.remote).
\* limitError without the check of the number of active IDs.
limitError_NoActiveCheck(active, len) ==
  IF len > 4 * activeConnIDLimit THEN "CONNECTION_ID_LIMIT_ERROR" ELSE "nil"

limitError(active, len) ==
  IF active > activeConnIDLimit THEN "CONNECTION_ID_LIMIT_ERROR"
  ELSE IF len > 4 * activeConnIDLimit THEN "CONNECTION_ID_LIMIT_ERROR"
  ELSE "nil"

\* handleNewConnID(c, f.seq, f.retire, f.cid, f.token).  Panics when
\* s.remote is empty.  The result has two more fields: moved and old, as in
\* newConnIDAppend.
handleNewConnID(s, c, f) ==
  IF s.remote[1].cid = 0
  THEN [s |-> s, q |-> <<>>, err |-> "PROTOCOL_VIOLATION",
        moved |-> FALSE, old |-> s.remote]
  ELSE
  LET s0 == bumpRetireRemotePriorTo(s, f.retire)
      lp == newConnIDLoop([s |-> s0, active |-> 0, have |-> FALSE,
                           q |-> <<>>, err |-> "nil"],
                          c, 1, s0.remoteLen, f)
  IN IF lp.err # "nil"
     THEN [s |-> lp.s, q |-> lp.q, err |-> lp.err,
           moved |-> FALSE, old |-> lp.s.remote]
     ELSE
     LET ap == IF lp.have
               THEN [s |-> lp.s, active |-> lp.active, q |-> lp.q,
                     moved |-> FALSE, old |-> lp.s.remote]
               ELSE newConnIDAppend(lp, c, f)
         err == limitError(ap.active, ap.s.remoteLen)
     IN [s |-> ap.s, q |-> ap.q, err |-> err,
         moved |-> ap.moved, old |-> ap.old]

\* The index of the first element of a sequence with this seq, 0 when none.
indexOfSeq(x, n, seq) ==
  LET hit == {i \in 1..n : x[i].seq = seq}
  IN IF hit = {} THEN 0 ELSE CHOOSE i \in hit : \A j \in hit : i <= j

\* handleRetireConnID that forgets to take the retired ID out of the map.
handleRetireConnID_KeepsMapEntry(s, c, seq, next) ==
  IF seq >= s.nextLocalSeq
  THEN result(s, <<>>, "PROTOCOL_VIOLATION")
  ELSE
  LET i == indexOfSeq(s.local, Len(s.local), seq)
      s1 == IF i = 0 THEN s ELSE [s EXCEPT !.local = RemoveAt(s.local, i)]
      r == issueLocalIDs(s1, c, next)
  IN result(r.s, r.q, "nil")

\* handleRetireConnID without the call of issueLocalIDs.
handleRetireConnID_NoRefill(s, c, seq, next) ==
  IF seq >= s.nextLocalSeq
  THEN result(s, <<>>, "PROTOCOL_VIOLATION")
  ELSE
  LET i == indexOfSeq(s.local, Len(s.local), seq)
      s1 == IF i = 0 THEN s ELSE [s EXCEPT !.local = RemoveAt(s.local, i)]
      q1 == IF i = 0 THEN <<>>
            ELSE <<closure("retireConnID", c, <<s.local[i].cid>>, <<>>, 0)>>
  IN result(s1, q1, "nil")

handleRetireConnID(s, c, seq, next) ==
  IF seq >= s.nextLocalSeq
  THEN result(s, <<>>, "PROTOCOL_VIOLATION")
  ELSE
  LET i == indexOfSeq(s.local, Len(s.local), seq)
      s1 == IF i = 0 THEN s ELSE [s EXCEPT !.local = RemoveAt(s.local, i)]
      q1 == IF i = 0 THEN <<>>
            ELSE <<closure("retireConnID", c, <<s.local[i].cid>>, <<>>, 0)>>
      r == issueLocalIDs(s1, c, next)
  IN result(r.s, q1 \o r.q, "nil")

ackOrLossNewConnectionID(s, pnum, seq, fate) ==
  LET i == indexOfSeq(s.local, Len(s.local), seq)
  IN IF i = 0 THEN s
     ELSE [s EXCEPT !.local[i].send = ackOrLoss(s.local[i].send, pnum, fate),
                    !.needSend = IF fate # "acked" THEN TRUE ELSE s.needSend]

ackOrLossRetireConnectionID(s, pnum, seq, fate) ==
  LET i == indexOfSeq(s.remote, s.remoteLen, seq)
  IN IF i = 0 THEN s
     ELSE IF fate = "acked" THEN removeRemote(s, i)
     ELSE [s EXCEPT !.needSend = TRUE,
                    !.remote[i].send = ackOrLoss(s.remote[i].send, pnum, fate)]


\* The frames appendFrames has to write, in the order it writes them:
\* <<"local", i>> for a NEW_CONNECTION_ID frame, <<"remote", i>> for a
\* RETIRE_CONNECTION_ID frame.
pendingFrames(s, pto) ==
  LET loc == {i \in 1..Len(s.local) : shouldSendPTO(s.local[i].send, pto)}
      rem == {i \in 1..s.remoteLen : shouldSendPTO(s.remote[i].send, pto)}
  IN [loc |-> loc, rem |-> rem]

\* The k-th smallest element of a finite set of naturals.
RECURSIVE nth(_, _)
nth(S, k) ==
  LET m == CHOOSE x \in S : \A y \in S : x <= y
  IN IF k = 1 THEN m ELSE nth(S \ {m}, k - 1)

\* appendFrames(c, pnum, pto), where the packet has room for `room` more
\* frames.  Returns the new state and the value the method returns (ok).
\* Panics when s.local is empty and there is something to send.
\* appendFrames that clears needSend although a frame did not fit.
appendFrames_ClearsEarly(s, pnum, pto, room) ==
  IF ~s.needSend /\ ~pto THEN [s |-> s, ok |-> TRUE]
  ELSE
  LET pf == pendingFrames(s, pto)
      nl == Cardinality(pf.loc)
      nr == Cardinality(pf.rem)
      sentLoc == {nth(pf.loc, k) : k \in 1..Min(nl, room)}
      sentRem == IF room <= nl THEN {}
                 ELSE {nth(pf.rem, k) : k \in 1..Min(nr, room - nl)}
      s1 == [s EXCEPT
               !.local = [i \in 1..Len(s.local) |->
                            IF i \in sentLoc
                            THEN [s.local[i] EXCEPT
                                    !.send = setSent(s.local[i].send, pnum)]
                            ELSE s.local[i]],
               !.remote = [i \in 1..Len(s.remote) |->
                            IF i \in sentRem
                            THEN [s.remote[i] EXCEPT
                                    !.send = setSent(s.remote[i].send, pnum)]
                            ELSE s.remote[i]]]
  IN IF nl + nr > room
     THEN [s |-> [s1 EXCEPT !.needSend = FALSE], ok |-> FALSE]
     ELSE [s |-> [s1 EXCEPT !.needSend = FALSE], ok |-> TRUE]

appendFrames(s, pnum, pto, room) ==
  IF ~s.needSend /\ ~pto THEN [s |-> s, ok |-> TRUE]
  ELSE
  LET pf == pendingFrames(s, pto)
      nl == Cardinality(pf.loc)
      nr == Cardinality(pf.rem)
      sentLoc == {nth(pf.loc, k) : k \in 1..Min(nl, room)}
      sentRem == IF room <= nl THEN {}
                 ELSE {nth(pf.rem, k) : k \in 1..Min(nr, room - nl)}
      s1 == [s EXCEPT
               !.local = [i \in 1..Len(s.local) |->
                            IF i \in sentLoc
                            THEN [s.local[i] EXCEPT
                                    !.send = setSent(s.local[i].send, pnum)]
                            ELSE s.local[i]],
               !.remote = [i \in 1..Len(s.remote) |->
                            IF i \in sentRem
                            THEN [s.remote[i] EXCEPT
                                    !.send = setSent(s.remote[i].send, pnum)]
                            ELSE s.remote[i]]]
  IN IF nl + nr > room THEN [s |-> s1, ok |-> FALSE]
     ELSE [s |-> [s1 EXCEPT !.needSend = FALSE], ok |-> TRUE]

\* The retire_before field of the NEW_CONNECTION_ID frames appendFrames
\* writes.
retireBefore(s) == IF s.local[1].seq # -1 THEN s.local[1].seq ELSE 0

\* ------------------------------------------------------------ connsMap
\* A Go map is a function on the keys it holds.
mapDelete(m, k) == [x \in DOMAIN m \ {k} |-> m[x]]

mapSet(m, k, v) == [x \in DOMAIN m \cup {k} |-> IF x = k THEN v ELSE m[x]]

mapGet(m, k) == IF k \in DOMAIN m THEN m[k] ELSE NoConn

addConnID(m, c, cid) == mapSet(m, cid, c)

retireConnID(m, c, cid) == mapDelete(m, cid)

addResetToken(m, c, token) == mapSet(m, token, c)

retireResetToken(m, c, token) == mapDelete(m, token)

RECURSIVE addConnIDs(_, _, _)
addConnIDs(m, c, cids) ==
  IF cids = <<>> THEN m
  ELSE addConnIDs(addConnID(m, c, Head(cids)), c, Tail(cids))

RECURSIVE retireConnIDs(_, _, _)
retireConnIDs(m, c, cids) ==
  IF cids = <<>> THEN m
  ELSE retireConnIDs(retireConnID(m, c, Head(cids)), c, Tail(cids))

RECURSIVE retireResetTokens(_, _, _)
retireResetTokens(m, c, tokens) ==
  IF tokens = <<>> THEN m
  ELSE retireResetTokens(retireResetToken(m, c, Head(tokens)), c, Tail(tokens))

\* Running one queued closure on the maps m = [byConnID, byResetToken].
\* A "retireResetTokenAt" closure reads the token through its pointer when
\* it runs: cs is connIDState as it is then.
runClosure(m, f, cs) ==
  CASE f.kind = "addConnID" ->
         [m EXCEPT !.byConnID = addConnIDs(m.byConnID, f.c, f.cids)]
    [] f.kind = "retireConnID" ->
         [m EXCEPT !.byConnID = retireConnIDs(m.byConnID, f.c, f.cids)]
    [] f.kind = "addResetToken" ->
         [m EXCEPT !.byResetToken =
                      addResetToken(m.byResetToken, f.c, f.tokens[1])]
    [] f.kind = "retireResetToken" ->
         [m EXCEPT !.byResetToken =
                      retireResetToken(m.byResetToken, f.c, f.tokens[1])]
    [] f.kind = "retireResetTokenAt" ->
         [m EXCEPT !.byResetToken =
                      retireResetToken(m.byResetToken, f.c,
                                       cs[f.c].remote[f.rcid].resetToken)]
    [] f.kind = "connDrained" ->
         [byConnID |-> retireConnIDs(m.byConnID, f.c, f.cids),
          byResetToken |-> retireResetTokens(m.byResetToken, f.c, f.tokens)]

RECURSIVE runClosures(_, _, _)
runClosures(m, q, cs) ==
  IF q = <<>> THEN m
  ELSE runClosures(runClosure(m, Head(q), cs), Tail(q), cs)

\* connsMap.applyUpdates: the maps after every queued closure has run.
applyUpdates(m, q, cs) == runClosures(m, q, cs)

\* The maps the receive loop looks a datagram up in: it applies the queue
\* first when updateNeeded is set.
mapsForLookup ==
  IF updateNeeded
  THEN applyUpdates([byConnID |-> byConnID, byResetToken |-> byResetToken],
                    updates, connIDState)
  ELSE [byConnID |-> byConnID, byResetToken |-> byResetToken]


\* ------------------------------------------------------------ Listener
connIDLen == 8
minimumValidPacketSize == 21
paddedInitialDatagramSize == 1200
statelessResetTokenLen == 16
maxStatelessResetSize == 42
quicVersion1 == 1

\* A datagram d read from the socket, as far as the listener looks at it:
\*   dstOk    dstConnIDForDatagram found a destination connection ID
\*   dst      that connection ID
\*   src      the source connection ID of a long header
\*   n        len(m.b)
\*   tail     the last 16 bytes, as a reset token
\*   long     isLongHeader(m.b[0])
\*   parse    parseGenericLongHeaderPacket succeeds
\*   version  the long header's version
\*   ptype    getPacketType(m.b)
\*   valid    validateInitialAddress accepts the packet's token
\*
\* What the listener does with it:
\*   what  "recycle" (dropped), "sendMsg" (handed to Conn `to`),
\*         "statelessResetEvent" (handleStatelessReset queued on `to`),
\*         "statelessReset", "versionNegotiation" (a datagram of `size`
\*         bytes sent), "newConn" (a Conn created and given the datagram)
outcome(what, to, size) == [what |-> what, to |-> to, size |-> size]

\* maybeSendStatelessReset that sends a reset as long as the datagram.
maybeSendStatelessReset_SameSize(n, canReset) ==
  IF ~canReset THEN 0
  ELSE IF n < 1 + connIDLen + 1 + 1 + 16 THEN 0
  ELSE Min(n, maxStatelessResetSize)

\* maybeSendStatelessReset: the length of the reset sent, 0 when none is.
maybeSendStatelessReset(n, canReset) ==
  IF ~canReset THEN 0
  ELSE IF n < 1 + connIDLen + 1 + 1 + 16 THEN 0
  ELSE Min(n - 1, maxStatelessResetSize)

\* sendVersionNegotiation that keeps the connection IDs where they were.
sendVersionNegotiation_NotSwapped(d) ==
  [kind |-> "versionNegotiation", dst |-> d.dst, src |-> d.src,
   versions |-> <<quicVersion1>>, size |-> 0]

\* sendVersionNegotiation(p, addr): the Version Negotiation packet sent in
\* answer to the long-header datagram d.  appendVersionNegotiation takes the
\* new packet's destination ID first, then its source ID.
sendVersionNegotiation(d) ==
  [kind |-> "versionNegotiation", dst |-> d.src, src |-> d.dst,
   versions |-> <<quicVersion1>>, size |-> 0]

\* The stateless reset of `size` bytes maybeSendStatelessReset sends.
statelessReset(size) ==
  [kind |-> "statelessReset", dst |-> 0, src |-> 0, versions |-> <<>>,
   size |-> size]

\* l.sendDatagram: the datagrams that go out while datagram d is handled
\* with outcome o.
sendDatagram(o, d) ==
  IF o.what = "versionNegotiation" THEN <<sendVersionNegotiation(d)>>
  ELSE IF o.what = "statelessReset" THEN <<statelessReset(o.size)>>
  ELSE <<>>

\* handleUnknownDestinationDatagram without the look-up of the reset token.
handleUnknownDestinationDatagram_NoTokenCheck(d, m, cfg) ==
  IF d.n < minimumValidPacketSize THEN outcome("recycle", NoConn, 0)
  ELSE IF ~d.long
  THEN IF maybeSendStatelessReset(d.n, cfg.canReset) > 0
       THEN outcome("statelessReset", NoConn,
                    maybeSendStatelessReset(d.n, cfg.canReset))
       ELSE outcome("recycle", NoConn, 0)
  ELSE IF ~d.parse \/ d.n < paddedInitialDatagramSize
  THEN outcome("recycle", NoConn, 0)
  ELSE IF d.version = 0 THEN outcome("recycle", NoConn, 0)
  ELSE IF d.version # quicVersion1
  THEN outcome("versionNegotiation", NoConn, 0)
  ELSE IF d.ptype # "initial" THEN outcome("recycle", NoConn, 0)
  ELSE IF cfg.requireAddressValidation /\ ~d.valid
  THEN outcome("recycle", NoConn, 0)
  ELSE outcome("newConn", NoConn, 0)

\* handleUnknownDestinationDatagram, up to the call of newConn: "newConn"
\* says that call is made.
handleUnknownDestinationDatagram(d, m, cfg) ==
  IF d.n < minimumValidPacketSize THEN outcome("recycle", NoConn, 0)
  ELSE IF mapGet(m.byResetToken, d.tail) # NoConn
  THEN outcome("statelessResetEvent", mapGet(m.byResetToken, d.tail), 0)
  ELSE IF ~d.long
  THEN IF maybeSendStatelessReset(d.n, cfg.canReset) > 0
       THEN outcome("statelessReset", NoConn,
                    maybeSendStatelessReset(d.n, cfg.canReset))
       ELSE outcome("recycle", NoConn, 0)
  ELSE IF ~d.parse \/ d.n < paddedInitialDatagramSize
  THEN outcome("recycle", NoConn, 0)
  ELSE IF d.version = 0 THEN outcome("recycle", NoConn, 0)
  ELSE IF d.version # quicVersion1
  THEN outcome("versionNegotiation", NoConn, 0)
  ELSE IF d.ptype # "initial" THEN outcome("recycle", NoConn, 0)
  ELSE IF cfg.requireAddressValidation /\ ~d.valid
  THEN outcome("recycle", NoConn, 0)
  ELSE outcome("newConn", NoConn, 0)

\* What became of the buffer m of a datagram: the Conns it was handed to
\* with c.sendMsg(m), in order, and how often m.recycle() ran.
disposed(handed, recycled) == [handed |-> handed, recycled |-> recycled]

\* No datagram was read.
notRead == disposed(<<>>, 0)

\* handleUnknownDestinationDatagram that leaves its pointer m alone after
\* c.sendMsg(m).
unknownDisposal_KeepsPointer(o, c) ==
  disposed(IF o.what = "newConn" /\ c # NoConn THEN <<c>> ELSE <<>>, 1)

\* The buffer in handleUnknownDestinationDatagram, which took the path o.
\* c is the Conn newConn returned, NoConn when it was not called or
\* returned an error.  Lines 319-320 hand m to c and set the pointer m to
\* nil; on return the deferred function recycles m unless m is nil.
unknownDisposal(o, c) ==
  LET handed == IF o.what = "newConn" /\ c # NoConn THEN <<c>> ELSE <<>>
      mIsNil == handed # <<>>
  IN disposed(handed, IF mIsNil THEN 0 ELSE 1)

\* The buffer in handleDatagram.
datagramDisposal(d, m, o, c) ==
  IF ~d.dstOk THEN disposed(<<>>, 1)
  ELSE IF mapGet(m.byConnID, d.dst) # NoConn
  THEN disposed(<<mapGet(m.byConnID, d.dst)>>, 0)
  ELSE unknownDisposal(o, c)

handleDatagram(d, m, cfg) ==
  IF ~d.dstOk THEN outcome("recycle", NoConn, 0)
  ELSE IF mapGet(m.byConnID, d.dst) # NoConn
  THEN outcome("sendMsg", mapGet(m.byConnID, d.dst), 0)
  ELSE handleUnknownDestinationDatagram(d, m, cfg)

\* Conn objects are allocated in order: the next one newConn makes.
newConnObject(cs) ==
  IF \E c \in cs : connState[c] = "none"
  THEN CHOOSE c \in cs :
         connState[c] = "none" /\ \A b \in cs : b < c => connState[b] # "none"
  ELSE NoConn

\* updateConnIDs, called once for each closure of q.
updateConnIDs(q) ==
  /\ updates' = updates \o q
  /\ updateNeeded' = (updateNeeded \/ q # <<>>)


\* ---------------------------------------------------------------- Init
\* newListener: no Conn, empty maps, the listen loop running.
Configs == [canReset : BOOLEAN, requireAddressValidation : BOOLEAN]

InitWith(cfgs) ==
  /\ conns = {}
  /\ closing = FALSE
  /\ udpClosed = FALSE
  /\ closec = FALSE
  /\ closePc = [k \in Closers |-> "idle"]
  /\ connState = [c \in Conns |-> "none"]
  /\ side = [c \in Conns |-> "client"]
  /\ connIDState = [c \in Conns |-> zeroConnIDState]
  /\ byConnID = <<>>
  /\ byResetToken = <<>>
  /\ updates = <<>>
  /\ updateNeeded = FALSE
  /\ nextCID = 1
  /\ config \in cfgs
  /\ lastDgram = outcome("none", NoConn, 0)
  /\ rcvd = <<>>
  /\ sent = <<>>
  /\ disposal = notRead
  /\ updateMu = <<>>
  /\ connPc = [c \in Conns |-> "idle"]
  /\ connF = [c \in Conns |-> <<>>]
  /\ loopPc = "read"
  /\ loopI = 0
  /\ ran = <<>>
  /\ returned = {}
  /\ mustSee = {}

\* ------------------------------------------------------------- actions
\* A step outside the receive loop handles no datagram.
quiet ==
  /\ lastDgram' = outcome("none", NoConn, 0)
  /\ rcvd' = <<>>
  /\ sent' = <<>>
  /\ disposal' = notRead

\* The actions above and below this point take updateConnIDs and one turn
\* of the receive loop as one step each; the actions of SpecUpdates take
\* them statement by statement.
noDatagram == quiet /\ UNCHANGED stepVars

\* A Conn handles packets and frames while it is open.  A handler that
\* returns an error closes the connection.
afterCall(c, err) ==
  connState' = [connState EXCEPT ![c] = IF err = "nil" THEN @ ELSE "closing"]

roomFor(q) == Len(updates) + Len(q) <= MaxUpdates

\* newConn without the check of l.closing.
newConn_NoClosingCheck(c, sd, r, n) ==
  /\ roomFor(r.q)
  /\ connState' = [connState EXCEPT ![c] = "open"]
  /\ side' = [side EXCEPT ![c] = sd]
  /\ connIDState' = [connIDState EXCEPT ![c] = r.s]
  /\ conns' = conns \cup {c}
  /\ nextCID' = nextCID + n

\* Listener.newConn for a Conn c of side sd whose connIDState was set up
\* with result r (initClient or initServer), using n new connection IDs.
newConn(c, sd, r, n) ==
  /\ ~closing
  /\ roomFor(r.q)
  /\ connState' = [connState EXCEPT ![c] = "open"]
  /\ side' = [side EXCEPT ![c] = sd]
  /\ connIDState' = [connIDState EXCEPT ![c] = r.s]
  /\ conns' = conns \cup {c}
  /\ nextCID' = nextCID + n

\* Listener.Dial, up to the return of newConn.
Dial(cs) ==
  /\ newConnObject(cs) # NoConn
  /\ LET c == newConnObject(cs)
         r == initClient(zeroConnIDState, c, nextCID)
     IN /\ newConn(c, "client", r, 2)
        /\ updateConnIDs(r.q)
  /\ UNCHANGED <<closing, udpClosed, closec, closePc, byConnID, byResetToken,
                 config>>
  /\ noDatagram

\* One turn of the loop of Listener.listen: a datagram d is read, the
\* queued updates are applied if updateNeeded is set, and d is handled.
Listen(d, cs) ==
  /\ ~udpClosed
  /\ ~closec
  /\ LET m == mapsForLookup
         q0 == IF updateNeeded THEN <<>> ELSE updates
         o == handleDatagram(d, m, config)
         c == newConnObject(cs)
         r == initServer(zeroConnIDState, c, d.dst, nextCID)
     IN /\ byConnID' = m.byConnID
        /\ byResetToken' = m.byResetToken
        /\ (o.what = "newConn" /\ ~closing) => c # NoConn
        /\ IF o.what = "newConn" /\ ~closing
           THEN /\ connState' = [connState EXCEPT ![c] = "open"]
                /\ side' = [side EXCEPT ![c] = "server"]
                /\ connIDState' = [x \in Conns |->
                                     IF x = c THEN r.s
                                     ELSE forget(connIDState[x], x, q0)]
                /\ conns' = conns \cup {c}
                /\ nextCID' = nextCID + 1
                /\ updates' = q0 \o r.q
                /\ updateNeeded' = TRUE
                /\ lastDgram' = outcome("newConn", c, 0)
                /\ sent' = <<>>
                /\ disposal' = datagramDisposal(d, m, o, c)
           ELSE /\ UNCHANGED <<connState, side, conns, nextCID>>
                /\ connIDState' = [x \in Conns |->
                                     hears(forget(connIDState[x], x, q0),
                                           x, o)]
                /\ updates' = q0
                /\ updateNeeded' = FALSE
                /\ lastDgram' = IF o.what = "newConn"
                                THEN outcome("recycle", NoConn, 0) ELSE o
                /\ sent' = sendDatagram(o, d)
                /\ disposal' = datagramDisposal(d, m, o, NoConn)
        /\ rcvd' = <<d>>
  /\ UNCHANGED stepVars
  /\ UNCHANGED <<closing, udpClosed, closec, closePc, config>>

\* Listener.listen returns: the read failed because the socket is closed.
ListenExit ==
  /\ udpClosed
  /\ ~closec
  /\ closec' = TRUE
  /\ UNCHANGED <<conns, closing, udpClosed, closePc, connState, side,
                 connIDState, byConnID, byResetToken, updates, updateNeeded,
                 nextCID, config>>
  /\ noDatagram

\* Listener.Close, the part under connsMu (lines 105-116).
CloseLocked(k) ==
  /\ closePc[k] = "idle"
  /\ closePc' = [closePc EXCEPT ![k] = "waiting"]
  /\ closing' = TRUE
  /\ IF ~closing
     THEN /\ connState' = [c \in Conns |->
                             IF c \in conns /\ connState[c] = "open"
                             THEN "closing" ELSE connState[c]]
          /\ udpClosed' = (udpClosed \/ conns = {})
     ELSE UNCHANGED <<connState, udpClosed>>
  /\ UNCHANGED <<conns, closec, side, connIDState, byConnID, byResetToken,
                 updates, updateNeeded, nextCID, config>>
  /\ noDatagram

\* Close that returns nil without waiting for closec.
CloseReturn_NoWait(k) ==
  /\ closePc[k] = "waiting"
  /\ closePc' = [closePc EXCEPT ![k] = "nil"]
  /\ UNCHANGED <<conns, closing, udpClosed, closec, connState, side,
                 connIDState, byConnID, byResetToken, updates, updateNeeded,
                 nextCID, config>>
  /\ noDatagram

\* Listener.Close returns nil: closec is closed.
CloseReturn(k) ==
  /\ closePc[k] = "waiting"
  /\ closec
  /\ closePc' = [closePc EXCEPT ![k] = "nil"]
  /\ UNCHANGED <<conns, closing, udpClosed, closec, connState, side,
                 connIDState, byConnID, byResetToken, updates, updateNeeded,
                 nextCID, config>>
  /\ noDatagram

\* Close that returns ctx.Err() without calling exit on the Conns.
CloseCancel_NoExit(k) ==
  /\ closePc[k] = "waiting"
  /\ closePc' = [closePc EXCEPT ![k] = "ctxErr"]
  /\ UNCHANGED <<conns, closing, udpClosed, closec, connState, side,
                 connIDState, byConnID, byResetToken, updates, updateNeeded,
                 nextCID, config>>
  /\ noDatagram

\* Listener.Close returns ctx.Err(): ctx is done; every Conn is told to exit.
CloseCancel(k) ==
  /\ closePc[k] = "waiting"
  /\ closePc' = [closePc EXCEPT ![k] = "ctxErr"]
  /\ connState' = [c \in Conns |->
                     IF c \in conns THEN "exited" ELSE connState[c]]
  /\ UNCHANGED <<conns, closing, udpClosed, closec, side, connIDState,
                 byConnID, byResetToken, updates, updateNeeded, nextCID,
                 config>>
  /\ noDatagram

\* The closure connDrained queues.
drainedClosure(s, c) ==
  closure("connDrained", c,
          [i \in 1..Len(s.local) |-> s.local[i].cid],
          [i \in 1..s.remoteLen |-> s.remote[i].resetToken], 0)

\* connDrained that leaves the socket open when the last Conn goes.
connDrained_NoSocketClose(c) ==
  /\ connState[c] \in {"open", "closing", "exited"}
  /\ closing \/ roomFor(<<drainedClosure(connIDState[c], c)>>)
  /\ updateConnIDs(<<drainedClosure(connIDState[c], c)>>)
  /\ connState' = [connState EXCEPT ![c] = "drained"]
  /\ conns' = conns \ {c}
  /\ UNCHANGED <<closing, udpClosed, closec, closePc, side, connIDState,
                 byConnID, byResetToken, nextCID, config>>
  /\ noDatagram

\* Listener.connDrained(c): c leaves the draining state.  The bound on the
\* length of the queue holds the call back only while the listener is open:
\* once it is closing no Conn is created and each Conn is drained once.
connDrained(c) ==
  /\ connState[c] \in {"open", "closing", "exited"}
  /\ closing \/ roomFor(<<drainedClosure(connIDState[c], c)>>)
  /\ updateConnIDs(<<drainedClosure(connIDState[c], c)>>)
  /\ connState' = [connState EXCEPT ![c] = "drained"]
  /\ conns' = conns \ {c}
  /\ udpClosed' = (udpClosed \/ (closing /\ conns \ {c} = {}))
  /\ UNCHANGED <<closing, closec, closePc, side, connIDState, byConnID,
                 byResetToken, nextCID, config>>
  /\ noDatagram


\* What every handler of Conn c leaves alone.
connUnchanged ==
  /\ UNCHANGED <<conns, closing, udpClosed, closec, closePc, side, byConnID,
                 byResetToken, config>>
  /\ noDatagram

\* The Conn receives the peer's active_connection_id_limit.  It is one of
\* the peer's transport parameters and does not change once set.
SetPeerActiveConnIDLimit(c, lim, maxSeq) ==
  /\ connState[c] = "open"
  /\ connIDState[c].peerActiveConnIDLimit = 0
  /\ LET r == setPeerActiveConnIDLimit(connIDState[c], c, lim, nextCID)
     IN /\ r.s.nextLocalSeq <= maxSeq
        /\ roomFor(r.q)
        /\ connIDState' = [connIDState EXCEPT ![c] = r.s]
        /\ nextCID' = nextCID + (r.s.nextLocalSeq - connIDState[c].nextLocalSeq)
        /\ updateConnIDs(r.q)
        /\ afterCall(c, r.err)
  /\ connUnchanged

\* The Conn handles an Initial or Handshake packet from src.
HandlePacket(c, ptype, src) ==
  /\ connState[c] = "open"
  /\ LET r == handlePacket(connIDState[c], c, side[c], ptype, src)
     IN /\ roomFor(r.q)
        /\ r.s # connIDState[c]
        /\ connIDState' = [connIDState EXCEPT ![c] = r.s]
        /\ updateConnIDs(r.q)
        /\ afterCall(c, r.err)
  /\ UNCHANGED nextCID
  /\ connUnchanged

\* The Conn handles a RETIRE_CONNECTION_ID frame.
HandleRetireConnID(c, seq, maxSeq) ==
  /\ connState[c] = "open"
  /\ LET r == handleRetireConnID(connIDState[c], c, seq, nextCID)
     IN /\ r.s.nextLocalSeq <= maxSeq
        /\ roomFor(r.q)
        /\ connIDState' = [connIDState EXCEPT ![c] = r.s]
        /\ nextCID' = nextCID + (r.s.nextLocalSeq - connIDState[c].nextLocalSeq)
        /\ updateConnIDs(r.q)
        /\ afterCall(c, r.err)
  /\ connUnchanged

\* The Conn handles a NEW_CONNECTION_ID frame f.  When append moves
\* s.remote to a new array, the closures queued earlier keep pointing into
\* the old one.  The frame travels in 0-RTT and 1-RTT packets only, which a
\* Conn handles after the peer's first Initial: remote holds the peer's
\* seq-0 ID or later ones by then, and no transient ID.
HandleNewConnID(c, f) ==
  /\ connState[c] = "open"
  /\ connIDState[c].remoteLen > 0
  /\ \A i \in 1..connIDState[c].remoteLen : connIDState[c].remote[i].seq # -1
  /\ LET r == handleNewConnID(connIDState[c], c, f)
         q0 == IF r.moved THEN detach(updates, c, r.old) ELSE updates
     IN /\ Len(q0) + Len(r.q) <= MaxUpdates
        /\ connIDState' = [connIDState EXCEPT ![c] = r.s]
        /\ updates' = q0 \o r.q
        /\ updateNeeded' = (updateNeeded \/ r.q # <<>>)
        /\ afterCall(c, r.err)
  /\ UNCHANGED nextCID
  /\ connUnchanged

\* The Conn validates the peer's transport parameters p.  They arrive in
\* the handshake, before the first packet that can carry a
\* NEW_CONNECTION_ID frame, and once: a client holds originalDstConnID
\* until it has checked them.
ValidateTransportParameters(c, p) ==
  /\ connState[c] = "open"
  /\ side[c] = "client" => connIDState[c].originalDstConnID # 0
  /\ connIDState[c].remoteLen <= 1
  /\ connIDState[c].retireRemotePriorTo = 0
  /\ LET r == validateTransportParameters(connIDState[c], c, side[c], p)
     IN /\ roomFor(r.q)
        /\ connIDState' = [connIDState EXCEPT ![c] = r.s]
        /\ updateConnIDs(r.q)
        /\ afterCall(c, r.err)
  /\ UNCHANGED nextCID
  /\ connUnchanged

\* A client Conn handles a Retry packet.
HandleRetryPacket(c, src) ==
  /\ connState[c] = "open"
  /\ side[c] = "client"
  /\ connIDState[c].remoteLen = 1
  /\ connIDState[c].remote[1].seq = -1
  /\ connIDState[c].retrySrcConnID = 0
  /\ connIDState' = [connIDState EXCEPT
                       ![c] = handleRetryPacket(connIDState[c], src)]
  /\ UNCHANGED <<connState, updates, updateNeeded, nextCID>>
  /\ connUnchanged

\* The Conn builds packet pnum with room for `room` connection ID frames.
AppendFrames(c, pnum, pto, room) ==
  /\ connState[c] = "open"
  /\ Len(connIDState[c].local) > 0
  /\ LET r == appendFrames(connIDState[c], pnum, pto, room)
     IN /\ r.s # connIDState[c]
        /\ connIDState' = [connIDState EXCEPT ![c] = [r.s EXCEPT !.heard = FALSE]]
  /\ UNCHANGED <<connState, updates, updateNeeded, nextCID>>
  /\ connUnchanged

\* Packet pnum, which carried NEW_CONNECTION_ID seq, is acked or lost.
AckOrLossNewConnectionID(c, seq, fate) ==
  /\ connState[c] = "open"
  /\ LET s == connIDState[c]
         i == indexOfSeq(s.local, Len(s.local), seq)
     IN /\ i # 0
        /\ s.local[i].send.st = "sent"
        /\ fate = "acked" => s.heard
        /\ connIDState' = [connIDState EXCEPT
             ![c] = ackOrLossNewConnectionID(s, s.local[i].send.pnum, seq, fate)]
  /\ UNCHANGED <<connState, updates, updateNeeded, nextCID>>
  /\ connUnchanged

\* Packet pnum, which carried RETIRE_CONNECTION_ID seq, is acked or lost.
AckOrLossRetireConnectionID(c, seq, fate) ==
  /\ connState[c] = "open"
  /\ LET s == connIDState[c]
         i == indexOfSeq(s.remote, s.remoteLen, seq)
     IN /\ i # 0
        /\ s.remote[i].send.st = "sent"
        /\ fate = "acked" => s.heard
        /\ connIDState' = [connIDState EXCEPT
             ![c] = forget(ackOrLossRetireConnectionID(
                             s, s.remote[i].send.pnum, seq, fate), c, updates)]
  /\ UNCHANGED <<connState, updates, updateNeeded, nextCID>>
  /\ connUnchanged


\* The RETIRE_CONNECTION_ID frames that packet pnum carries: loss detection
\* calls ackOrLossRetireConnectionID for each when the packet is acked or
\* lost.
RECURSIVE ackOrLossRetireFrames(_, _, _, _)
ackOrLossRetireFrames(s, pnum, seqs, fate) ==
  IF seqs = {} THEN s
  ELSE LET seq == CHOOSE x \in seqs : \A y \in seqs : x <= y
       IN ackOrLossRetireFrames(
            ackOrLossRetireConnectionID(s, pnum, seq, fate),
            pnum, seqs \ {seq}, fate)

retireFramesIn(s, pnum) ==
  {s.remote[i].seq : i \in {j \in 1..s.remoteLen :
                              s.remote[j].send = [st |-> "sent", pnum |-> pnum]}}

\* Packet pnum is acked or lost.
AckOrLossPacket(c, pnum, fate) ==
  /\ connState[c] = "open"
  /\ retireFramesIn(connIDState[c], pnum) # {}
  /\ fate = "acked" => connIDState[c].heard
  /\ connIDState' = [connIDState EXCEPT
       ![c] = forget(ackOrLossRetireFrames(
                       connIDState[c], pnum,
                       retireFramesIn(connIDState[c], pnum), fate), c, updates)]
  /\ UNCHANGED <<connState, updates, updateNeeded, nextCID>>
  /\ connUnchanged

\* ---------------------------------------------------------- inputs
\* Connection IDs a peer can put in a datagram: every ID issued so far and
\* the IDs clients choose themselves.
PeerCIDs == {100 + k : k \in 1..MaxPeerCIDs}

KnownCIDs == 1..(nextCID - 1) \cup PeerCIDs

\* The source connection ID a peer puts in its long headers.
PeerSrc == 200

\* Padded Initial packets for any known destination, none of them ending
\* in a registered token.
InitialDatagrams ==
  [dstOk : {TRUE}, dst : KnownCIDs, src : {PeerSrc},
   n : {paddedInitialDatagramSize},
   tail : {0}, long : {TRUE}, parse : {TRUE}, version : {quicVersion1},
   ptype : {"initial"}, valid : {TRUE}]

\* ------------------------------------------------------------- Spec
\* The configuration of the listener.
defaultConfig == [canReset |-> TRUE, requireAddressValidation |-> FALSE]

Init == InitWith({defaultConfig})

\* Spec: the connection ID map and the local connection IDs of the Conns
\* of a listener that is not closed.
Next ==
  \/ Dial(Conns)
  \/ \E d \in InitialDatagrams : Listen(d, Conns)
  \/ \E c \in Conns : connDrained(c)
  \/ \E c \in Conns, lim \in 0..MaxPeerLimit :
       SetPeerActiveConnIDLimit(c, lim, MaxLocalSeq)
  \/ \E c \in Conns : HandlePacket(c, "handshake", 1)
  \/ \E c \in Conns, seq \in 0..MaxLocalSeq :
       HandleRetireConnID(c, seq, MaxLocalSeq)

Spec == Init /\ [][Next]_vars

\* SpecClose: opening and closing the listener and its Conns.
NextClose ==
  \/ Dial(Conns)
  \/ \E d \in InitialDatagrams : Listen(d, Conns)
  \/ ListenExit
  \/ \E k \in Closers : CloseLocked(k)
  \/ \E k \in Closers : CloseReturn(k)
  \/ \E k \in Closers : CloseCancel(k)
  \/ \E c \in Conns : connDrained(c)

SpecClose == Init /\ [][NextClose]_vars

\* SpecCloseLive: SpecClose with the scheduling the code relies on.  A Conn
\* that was told to exit calls connDrained in the end, and the receive
\* loop, blocked in a read of the socket, returns once the socket is
\* closed.
exitedConnDrained(c) == connState[c] = "exited" /\ connDrained(c)

SpecCloseLive ==
  /\ Init
  /\ [][NextClose]_vars
  /\ \A c \in Conns : WF_vars(exitedConnDrained(c))
  /\ WF_vars(ListenExit)

\* SpecLocal: one Conn and its local connection IDs, with limits around
\* maxPeerActiveConnIDLimit.
One == {1}

NextLocal ==
  \/ Dial(One)
  \/ \E d \in InitialDatagrams : Listen(d, One)
  \/ \E lim \in 0..MaxPeerLimitOne :
       SetPeerActiveConnIDLimit(1, lim, MaxLocalSeqOne)
  \/ HandlePacket(1, "handshake", 1)
  \/ \E seq \in 0..MaxLocalSeqOne : HandleRetireConnID(1, seq, MaxLocalSeqOne)
  \/ connDrained(1)

SpecLocal == Init /\ [][NextLocal]_vars

\* SpecRemote: one Conn, the connection IDs its peer issues and the reset
\* token map.
\* The reset token a peer derives from one of its connection IDs.
peerToken(cid) == cid

\* The NEW_CONNECTION_ID frames a peer sends: any sequence number with any
\* of its connection IDs and that ID's token.  A frame whose Retire Prior To
\* is above its sequence number does not pass the frame parser.
Frames ==
  {f \in {[seq |-> a, retire |-> b, cid |-> x, token |-> peerToken(x)] :
            a \in 0..MaxRemoteSeq, b \in 0..MaxRemoteSeq,
            x \in 1..MaxRemoteCIDs} : f.retire <= f.seq}

\* The transport parameters a peer can send to a Conn in state s.
TransportParameters(s) ==
  [originalDstConnID : {0, s.originalDstConnID},
   retrySrcConnID : {s.retrySrcConnID},
   initialSrcConnID : 0..MaxRemoteCIDs,
   statelessResetToken : {-1} \cup 1..MaxRemoteCIDs]

\* Padded Initial packets: for a connection ID in the map, and for a
\* client-chosen destination with any token at the end.
TokenDatagrams ==
  {d \in [dstOk : {TRUE}, dst : KnownCIDs, src : {PeerSrc},
          n : {paddedInitialDatagramSize},
          tail : 0..MaxRemoteCIDs, long : {TRUE}, parse : {TRUE},
          version : {quicVersion1}, ptype : {"initial"}, valid : {TRUE}] :
     \/ d.dst \in DOMAIN byConnID /\ d.tail = 0
     \/ d.dst \in PeerCIDs}

NextRemote ==
  \/ Dial(One)
  \/ \E d \in TokenDatagrams : Listen(d, One)
  \/ \E src \in 0..MaxRemoteCIDs : HandlePacket(1, "initial", src)
  \/ \E p \in TransportParameters(connIDState[1]) :
       ValidateTransportParameters(1, p)
  \/ \E f \in Frames : HandleNewConnID(1, f)
  \/ \E pto \in BOOLEAN, room \in 0..MaxRoom : AppendFrames(1, 1, pto, room)
  \/ \E seq \in 0..MaxRemoteSeq, fate \in {"acked", "lost"} :
       AckOrLossRetireConnectionID(1, seq, fate)
  \/ connDrained(1)

SpecRemote == Init /\ [][NextRemote]_vars

\* SpecRemoteLen: one Conn whose peer issues many connection IDs in order,
\* so that both limits of handleNewConnID are met.
seqsOf(s) == {s.remote[i].seq : i \in 1..s.remoteLen}

\* The frames of a peer that issues its IDs in order: a frame repeats an ID
\* the Conn holds or brings the one after the highest it holds.
InOrderFrames(s) ==
  {f \in [seq : 0..MaxLongSeq, retire : 0..MaxLongSeq, cid : {1},
          token : {peerToken(1)}] :
     /\ f.retire <= f.seq
     /\ \/ f.seq \in seqsOf(s)
        \/ \A n \in seqsOf(s) : n < f.seq /\ f.seq - 1 \in seqsOf(s)}

NextRemoteLen ==
  \/ Dial(One)
  \/ \E d \in InitialDatagrams : Listen(d, One)
  \/ HandlePacket(1, "initial", 1)
  \/ \E f \in InOrderFrames(connIDState[1]) : HandleNewConnID(1, f)
  \/ \E pto \in BOOLEAN : AppendFrames(1, 1, pto, MaxLongSeq + 1)
  \/ \E fate \in {"acked", "lost"} : AckOrLossPacket(1, 1, fate)

SpecRemoteLen == Init /\ [][NextRemoteLen]_vars

\* SpecSend: a client Conn that issues connection IDs and is issued them, the
\* NEW_CONNECTION_ID and RETIRE_CONNECTION_ID frames it writes into
\* packets of little room, and the acks and losses of those packets.
SendFrames(s) ==
  {f \in [seq : 0..MaxRemoteSeq, retire : 0..MaxRemoteSeq, cid : {1},
          token : {peerToken(1)}] :
     /\ f.retire <= f.seq
     /\ \A n \in seqsOf(s) : n <= f.seq}

\* Datagrams for the Conn.
SendDatagrams ==
  {d \in InitialDatagrams : d.dst \in DOMAIN mapsForLookup.byConnID}

NextSend ==
  \/ Dial(One)
  \/ \E d \in SendDatagrams : Listen(d, One)
  \/ HandlePacket(1, "initial", 1)
  \/ SetPeerActiveConnIDLimit(1, MaxPeerLimit, MaxLocalSeqSend)
  \/ \E seq \in 0..MaxLocalSeqSend :
       HandleRetireConnID(1, seq, MaxLocalSeqSend)
  \/ \E f \in SendFrames(connIDState[1]) : HandleNewConnID(1, f)
  \/ \E pnum \in 1..MaxPnum, pto \in BOOLEAN, room \in 1..(MaxRoom + 1) :
       AppendFrames(1, pnum, pto, room)
  \/ \E seq \in 0..MaxLocalSeqSend, fate \in {"acked", "lost"} :
       AckOrLossNewConnectionID(1, seq, fate)
  \/ \E seq \in 0..MaxRemoteSeq, fate \in {"acked", "lost"} :
       AckOrLossRetireConnectionID(1, seq, fate)

SpecSend == Init /\ [][NextSend]_vars

\* SpecDatagram: the receive loop and datagrams of every form, with or
\* without a stateless reset key.
\* The smallest datagram maybeSendStatelessReset answers (line 334).
minimumResetTrigger == 1 + connIDLen + 1 + 1 + 16

\* The reset tokens a datagram can end in: one no peer has issued (0) or
\* the token of the peer's first connection ID.
Tails == {0, peerToken(1)}

\* Lengths of short-header datagrams: around each threshold of the code,
\* and every length a stateless reset can have, so that a datagram can be
\* the reset another endpoint running this code sent in answer to ours.
ShortSizes ==
  {minimumValidPacketSize - 1, paddedInitialDatagramSize}
    \cup (minimumValidPacketSize..(maxStatelessResetSize + 2))

LongSizes ==
  {minimumValidPacketSize - 1, minimumValidPacketSize,
   paddedInitialDatagramSize - 1, paddedInitialDatagramSize}

\* Versions of a long header: 0 (Version Negotiation), QUIC v1 and one the
\* listener does not support.
Versions == {0, quicVersion1, quicVersion1 + 1}

ShortDatagrams ==
  [dstOk : {TRUE}, dst : KnownCIDs, src : {0}, n : ShortSizes, tail : Tails,
   long : {FALSE}, parse : {FALSE}, version : {0}, ptype : {"1rtt"},
   valid : {FALSE}]

\* Long-header datagrams.  The fields the listener does not get to read
\* (the version of a packet it cannot parse, the type and the address
\* validation token of a packet of another version) are left at one value.
LongDatagrams ==
  {d \in [dstOk : {TRUE}, dst : KnownCIDs, src : {PeerSrc}, n : LongSizes,
          tail : Tails, long : {TRUE}, parse : BOOLEAN, version : Versions,
          ptype : {"initial", "handshake"}, valid : BOOLEAN] :
     /\ ~d.parse => d.version = 0
     /\ d.version # quicVersion1 => d.ptype = "initial"
     /\ (d.ptype # "initial" \/ d.version # quicVersion1) => ~d.valid}

\* Datagrams dstConnIDForDatagram finds no destination connection ID in.
UndecodableDatagrams ==
  [dstOk : {FALSE}, dst : {0}, src : {0}, n : {minimumValidPacketSize},
   tail : {0}, long : BOOLEAN, parse : {FALSE}, version : {0},
   ptype : {"1rtt"}, valid : {FALSE}]

AnyDatagrams == ShortDatagrams \cup LongDatagrams \cup UndecodableDatagrams

InitDatagram == InitWith(Configs)

\* Transport parameters that pass validation, with or without a stateless
\* reset token.
GoodTransportParameters(s) ==
  {p \in TransportParameters(s) :
     /\ p.originalDstConnID = s.originalDstConnID
     /\ s.remoteLen > 0 /\ p.initialSrcConnID = s.remote[1].cid
     /\ p.statelessResetToken \in {-1, peerToken(1)}}

NextDatagram ==
  \/ Dial(One)
  \/ \E d \in AnyDatagrams : Listen(d, One)
  \/ HandlePacket(1, "initial", 1)
  \/ \E p \in GoodTransportParameters(connIDState[1]) :
       ValidateTransportParameters(1, p)

SpecDatagram == InitDatagram /\ [][NextDatagram]_vars

\* SpecUpdates: connsMap.updateConnIDs and the receive loop, statement by
\* statement.  It starts with every Conn dialled and its first connection
\* ID registered by the receive loop.
dialled(c) == initClient(zeroConnIDState, c, 2 * c - 1).s

InitUpdates ==
  /\ conns = Conns
  /\ closing = FALSE
  /\ udpClosed = FALSE
  /\ closec = FALSE
  /\ closePc = [k \in Closers |-> "idle"]
  /\ connState = [c \in Conns |-> "open"]
  /\ side = [c \in Conns |-> "client"]
  /\ connIDState = [c \in Conns |-> dialled(c)]
  /\ byConnID = [cid \in {2 * c - 1 : c \in Conns} |-> (cid + 1) \div 2]
  /\ byResetToken = <<>>
  /\ updates = <<>>
  /\ updateNeeded = FALSE
  /\ nextCID = 2 * MaxConns + 1
  /\ config = defaultConfig
  /\ lastDgram = outcome("none", NoConn, 0)
  /\ rcvd = <<>>
  /\ sent = <<>>
  /\ disposal = notRead
  /\ updateMu = <<>>
  /\ connPc = [c \in Conns |-> "idle"]
  /\ connF = [c \in Conns |-> <<>>]
  /\ loopPc = "read"
  /\ loopI = 0
  /\ ran = <<>>
  /\ returned = {}
  /\ mustSee = {}

\* What a step of a Conn inside updateConnIDs leaves alone.
inUpdateConnIDs ==
  /\ UNCHANGED <<conns, closing, udpClosed, closec, closePc, connState, side,
                 connIDState, byConnID, byResetToken, config, loopPc, loopI,
                 ran, mustSee>>
  /\ quiet

\* Conn c calls updateConnIDs(f), f a closure that registers a new ID.
UpdateConnIDsCall(c) ==
  /\ connState[c] = "open"
  /\ connPc[c] = "idle"
  /\ nextCID <= 2 * MaxConns + MaxEnqueued
  /\ connPc' = [connPc EXCEPT ![c] = "call"]
  /\ connF' = [connF EXCEPT
                 ![c] = <<closure("addConnID", c, <<nextCID>>, <<>>, 0)>>]
  /\ nextCID' = nextCID + 1
  /\ UNCHANGED <<updateMu, updates, updateNeeded, returned>>
  /\ inUpdateConnIDs

\* m.updateMu.Lock() (line 433).
UpdateConnIDsLock(c) ==
  /\ connPc[c] = "call"
  /\ updateMu = <<>>
  /\ updateMu' = <<"conn", c>>
  /\ connPc' = [connPc EXCEPT ![c] = "locked"]
  /\ UNCHANGED <<connF, nextCID, updates, updateNeeded, returned>>
  /\ inUpdateConnIDs

\* m.updates = append(m.updates, f) (line 435).
UpdateConnIDsAppend(c) ==
  /\ connPc[c] = "locked"
  /\ updates' = Append(updates, connF[c][1])
  /\ connPc' = [connPc EXCEPT ![c] = "appended"]
  /\ UNCHANGED <<connF, nextCID, updateMu, updateNeeded, returned>>
  /\ inUpdateConnIDs

\* updateConnIDs without m.updateNeeded.Store(true).
UpdateConnIDsStore_NoStore(c) ==
  /\ connPc[c] = "appended"
  /\ connPc' = [connPc EXCEPT ![c] = "stored"]
  /\ UNCHANGED <<connF, nextCID, updateMu, updates, updateNeeded, returned>>
  /\ inUpdateConnIDs

\* m.updateNeeded.Store(true) (line 436).
UpdateConnIDsStore(c) ==
  /\ connPc[c] = "appended"
  /\ updateNeeded' = TRUE
  /\ connPc' = [connPc EXCEPT ![c] = "stored"]
  /\ UNCHANGED <<connF, nextCID, updateMu, updates, returned>>
  /\ inUpdateConnIDs

\* The deferred m.updateMu.Unlock() (line 434): updateConnIDs returns.
UpdateConnIDsUnlock(c) ==
  /\ connPc[c] = "stored"
  /\ updateMu' = <<>>
  /\ connPc' = [connPc EXCEPT ![c] = "idle"]
  /\ returned' = returned \cup {connF[c][1]}
  /\ connF' = [connF EXCEPT ![c] = <<>>]
  /\ UNCHANGED <<nextCID, updates, updateNeeded>>
  /\ inUpdateConnIDs

\* What a step of the receive loop before it handles the datagram leaves
\* alone.
inListen ==
  /\ UNCHANGED <<conns, closing, udpClosed, closec, closePc, connState, side,
                 connIDState, config, nextCID, connPc, connF, returned>>
  /\ quiet

\* The receive loop has read a datagram and tests updateNeeded (line 218).
ListenLoad ==
  /\ loopPc = "read"
  /\ ~udpClosed
  /\ loopPc' = IF updateNeeded THEN "apply" ELSE "handle"
  /\ mustSee' = returned
  /\ UNCHANGED <<byConnID, byResetToken, updates, updateNeeded, updateMu,
                 loopI, ran>>
  /\ inListen

\* applyUpdates: m.updateMu.Lock() (line 441).
ApplyUpdatesLock ==
  /\ loopPc = "apply"
  /\ updateMu = <<>>
  /\ updateMu' = <<"listen", 0>>
  /\ loopPc' = "run"
  /\ loopI' = 1
  /\ UNCHANGED <<byConnID, byResetToken, updates, updateNeeded, ran, mustSee>>
  /\ inListen

\* applyUpdates: one turn of the loop, f(m) (lines 443-445).
ApplyUpdatesRun ==
  /\ loopPc = "run"
  /\ loopI <= Len(updates)
  /\ LET m == runClosure([byConnID |-> byConnID,
                          byResetToken |-> byResetToken],
                         updates[loopI], connIDState)
     IN /\ byConnID' = m.byConnID
        /\ byResetToken' = m.byResetToken
  /\ ran' = Append(ran, updates[loopI])
  /\ loopI' = loopI + 1
  /\ UNCHANGED <<updates, updateNeeded, updateMu, loopPc, mustSee>>
  /\ inListen

\* applyUpdates that leaves the closures it ran in m.updates.
ApplyUpdatesClear_KeepsUpdates ==
  /\ loopPc = "run"
  /\ loopI > Len(updates)
  /\ loopPc' = "cleared"
  /\ UNCHANGED <<byConnID, byResetToken, updates, updateNeeded, updateMu,
                 loopI, ran, mustSee>>
  /\ inListen

\* applyUpdates: clear(m.updates); m.updates = m.updates[:0] (lines 446-447).
ApplyUpdatesClear ==
  /\ loopPc = "run"
  /\ loopI > Len(updates)
  /\ updates' = <<>>
  /\ loopPc' = "cleared"
  /\ UNCHANGED <<byConnID, byResetToken, updateNeeded, updateMu, loopI, ran,
                 mustSee>>
  /\ inListen

\* applyUpdates: m.updateNeeded.Store(false) (line 448).
ApplyUpdatesStore ==
  /\ loopPc = "cleared"
  /\ updateNeeded' = FALSE
  /\ loopPc' = "stored"
  /\ UNCHANGED <<byConnID, byResetToken, updates, updateMu, loopI, ran,
                 mustSee>>
  /\ inListen

\* applyUpdates: the deferred m.updateMu.Unlock() (line 442).
ApplyUpdatesUnlock ==
  /\ loopPc = "stored"
  /\ updateMu' = <<>>
  /\ loopPc' = "handle"
  /\ UNCHANGED <<byConnID, byResetToken, updates, updateNeeded, loopI, ran,
                 mustSee>>
  /\ inListen

\* l.handleDatagram(m) (line 223): a short-header datagram d is looked up.
ListenHandle(d) ==
  /\ loopPc = "handle"
  /\ LET o == handleDatagram(d, [byConnID |-> byConnID,
                                 byResetToken |-> byResetToken], config)
     IN /\ lastDgram' = o
        /\ sent' = sendDatagram(o, d)
        /\ disposal' = datagramDisposal(d, [byConnID |-> byConnID,
                                            byResetToken |-> byResetToken],
                                        o, NoConn)
  /\ rcvd' = <<d>>
  /\ loopPc' = "read"
  /\ UNCHANGED <<conns, closing, udpClosed, closec, closePc, connState, side,
                 connIDState, byConnID, byResetToken, updates, updateNeeded,
                 nextCID, config, updateMu, connPc, connF, loopI, ran,
                 returned, mustSee>>

\* Short-header datagrams for the connection IDs issued so far.
IssuedDatagrams ==
  {d \in ShortDatagrams :
     /\ d.dst \in 1..(nextCID - 1)
     /\ d.n = paddedInitialDatagramSize
     /\ d.tail = 0}

NextUpdates ==
  \/ \E c \in Conns : UpdateConnIDsCall(c)
  \/ \E c \in Conns : UpdateConnIDsLock(c)
  \/ \E c \in Conns : UpdateConnIDsAppend(c)
  \/ \E c \in Conns : UpdateConnIDsStore(c)
  \/ \E c \in Conns : UpdateConnIDsUnlock(c)
  \/ ListenLoad
  \/ ApplyUpdatesLock
  \/ ApplyUpdatesRun
  \/ ApplyUpdatesClear
  \/ ApplyUpdatesStore
  \/ ApplyUpdatesUnlock
  \/ \E d \in IssuedDatagrams : ListenHandle(d)

SpecUpdates == InitUpdates /\ [][NextUpdates]_vars

\* ------------------------------------------------------------ properties
\* The connection IDs of the non-retired entries of s.local.
localCIDs(s) ==
  {s.local[i].cid : i \in {j \in 1..Len(s.local) : ~s.local[j].retired}}

\* A Conn that was created and has not been drained.
live(c) == connState[c] \in {"open", "closing", "exited"}

\* Conn c has queued the removal of cid and the receive loop has not
\* applied it yet.
removalQueued(c, cid) ==
  \E k \in 1..Len(updates) :
    /\ updates[k].c = c
    /\ updates[k].kind \in {"retireConnID", "connDrained"}
    /\ \E j \in 1..Len(updates[k].cids) : updates[k].cids[j] = cid

\* C1, as stated: every entry cid -> conn of byConnID is for a CID that is a
\* non-retired entry of conn's local, and no CID is owned by two Conns.
C1_EveryEntryInLocal ==
  /\ \A cid \in DOMAIN byConnID :
       cid \in localCIDs(connIDState[byConnID[cid]])
  /\ \A c1, c2 \in Conns :
       (c1 # c2 /\ live(c1) /\ live(c2)) =>
         localCIDs(connIDState[c1]) \cap localCIDs(connIDState[c2]) = {}

\* C1, amended: every entry cid -> conn of byConnID is for a CID that is a
\* non-retired entry of the local of conn, a Conn not yet drained, or for a
\* CID whose removal conn has queued in updates and the receive loop has not
\* applied yet; and no CID is in the local of two live Conns.
C1_EntryInLocalOrRemovalQueued ==
  /\ \A cid \in DOMAIN byConnID :
       \/ /\ live(byConnID[cid])
          /\ cid \in localCIDs(connIDState[byConnID[cid]])
       \/ removalQueued(byConnID[cid], cid)
  /\ \A c1, c2 \in Conns :
       (c1 # c2 /\ live(c1) /\ live(c2)) =>
         localCIDs(connIDState[c1]) \cap localCIDs(connIDState[c2]) = {}

\* A Conn has retired a local ID, the receive loop has taken the ID out of
\* the map, and another ID of the Conn is still in it.
C1_Witness ==
  \E c \in Conns :
    /\ connState[c] = "open"
    /\ updates = <<>>
    /\ \E cid \in DOMAIN byConnID : byConnID[cid] = c
    /\ \E cid \in 1..(nextCID - 1) :
         /\ cid \notin DOMAIN byConnID
         /\ cid \notin localCIDs(connIDState[c])
         /\ connIDState[c].nextLocalSeq > 1
         /\ side[c] = "client"
         /\ Len(connIDState[c].local) < connIDState[c].nextLocalSeq

queuedTokens(old, new) ==
  {<<new[k].c, new[k].tokens[1]>> :
     k \in {j \in (Len(old) + 1)..Len(new) : new[j].kind = "addResetToken"}}

nonRetiredLocal(s) ==
  Cardinality({i \in 1..Len(s.local) : ~s.local[i].retired})

\* C3, as stated: the number of non-retired entries of local is at most
\* min(peerActiveConnIDLimit, maxPeerActiveConnIDLimit).
C3_LocalWithinPeerLimit ==
  \A c \in Conns :
    connState[c] # "none" =>
      nonRetiredLocal(connIDState[c]) <=
        Min(connIDState[c].peerActiveConnIDLimit, maxPeerActiveConnIDLimit)

\* C3, amended: the non-retired entries of local other than the transient
\* one (seq -1) are at most maxPeerActiveConnIDLimit in every state, and
\* whenever a Conn issues a new ID after its first one they are at most
\* min(peerActiveConnIDLimit, maxPeerActiveConnIDLimit) afterwards.
C3_IssuedWithinPeerLimit ==
  /\ [](\A c \in Conns :
          countedLocal(connIDState[c]) <= maxPeerActiveConnIDLimit)
  /\ [][\A c \in Conns :
          (/\ connIDState[c].nextLocalSeq > 0
           /\ connIDState'[c].nextLocalSeq > connIDState[c].nextLocalSeq) =>
            countedLocal(connIDState'[c]) <=
              Min(connIDState'[c].peerActiveConnIDLimit,
                  maxPeerActiveConnIDLimit)]_vars

\* A server Conn whose peer allows more IDs than maxPeerActiveConnIDLimit
\* has issued up to the cap and still holds the transient ID.
C3_Witness ==
  \E c \in Conns :
    /\ side[c] = "server"
    /\ connState[c] = "open"
    /\ connIDState[c].local[1].seq = -1
    /\ connIDState[c].peerActiveConnIDLimit > maxPeerActiveConnIDLimit
    /\ countedLocal(connIDState[c]) = maxPeerActiveConnIDLimit

\* The number of non-retired entries of s.remote.
activeRemote(s) ==
  Cardinality({i \in 1..s.remoteLen : ~s.remote[i].retired})

\* C4, as stated: in every state of a connection the non-retired entries of
\* remote are at most activeConnIDLimit and len(remote) is at most
\* 4 * activeConnIDLimit.
C4_RemoteWithinLimits ==
  \A c \in Conns :
    connState[c] # "none" =>
      /\ activeRemote(connIDState[c]) <= activeConnIDLimit
      /\ connIDState[c].remoteLen <= 4 * activeConnIDLimit

\* C4, amended: the two bounds hold as long as no handler of the connection
\* has returned an error; the call of handleNewConnID that returns
\* CONNECTION_ID_LIMIT_ERROR leaves remote one entry over the bound.
C4_RemoteWithinLimitsWhileOpen ==
  \A c \in Conns :
    /\ connState[c] = "open" =>
         /\ activeRemote(connIDState[c]) <= activeConnIDLimit
         /\ connIDState[c].remoteLen <= 4 * activeConnIDLimit
    /\ connState[c] # "none" =>
         /\ activeRemote(connIDState[c]) <= activeConnIDLimit + 1
         /\ connIDState[c].remoteLen <= 4 * activeConnIDLimit + 1

\* An open connection holds as many remote entries as it may, the most it
\* may of them active, the others retired and waiting for the peer's ack.
C4_Witness ==
  \E c \in Conns :
    /\ connState[c] = "open"
    /\ connIDState[c].remoteLen = 4 * activeConnIDLimit
    /\ activeRemote(connIDState[c]) = activeConnIDLimit
    /\ connIDState[c].retireRemotePriorTo > 0


\* The entries of local' that were not in local.
newLocal(s, s1) ==
  {i \in 1..Len(s1.local) :
     \A j \in 1..Len(s.local) : s.local[j].cid # s1.local[i].cid}

\* C5: the entries of local are in strictly increasing order of seq by
\* position, so that local[0] is the oldest and retire_before is not above
\* any ID in use; every seq is below nextLocalSeq; and an ID issued in a step
\* gets a seq above all those issued before.
C5_LocalSeqsIncrease ==
  /\ [](\A c \in Conns :
          LET s == connIDState[c] IN
          /\ \A i, j \in 1..Len(s.local) :
               i < j => s.local[i].seq < s.local[j].seq
          /\ \A i \in 1..Len(s.local) : s.local[i].seq < s.nextLocalSeq
          /\ \A i \in 1..Len(s.local) :
               s.local[i].seq # -1 => retireBefore(s) <= s.local[i].seq)
  /\ [][\A c \in Conns :
          /\ connIDState'[c].nextLocalSeq >= connIDState[c].nextLocalSeq
          /\ \A i \in newLocal(connIDState[c], connIDState'[c]) :
               connIDState'[c].local[i].seq # -1 =>
                 connIDState'[c].local[i].seq >=
                   connIDState[c].nextLocalSeq]_vars

\* A Conn has retired an ID in the middle and issued later ones: local has
\* three entries or more and a gap in its sequence numbers.
C5_Witness ==
  \E c \in Conns :
    /\ Len(connIDState[c].local) >= 3
    /\ \E i \in 1..(Len(connIDState[c].local) - 1) :
         connIDState[c].local[i + 1].seq > connIDState[c].local[i].seq + 1

C7_SocketClosedIffClosingAndEmpty ==
  udpClosed <=> (closing /\ conns = {})

\* The socket was closed by connDrained when the last Conn of a closing
\* listener went away.
C7_Witness ==
  /\ udpClosed
  /\ closing
  /\ \A c \in Conns : connState[c] = "drained"

\* C8: once closing is set, conns never gains a member and no Conn is
\* created; an Initial for an unknown destination is dropped, and a
\* datagram is delivered only to the Conn the map holds for it.
C8_NoNewConnOnceClosing ==
  [][closing =>
       /\ closing'
       /\ conns' \subseteq conns
       /\ \A c \in Conns : connState[c] = "none" => connState'[c] = "none"
       /\ lastDgram'.what \in {"none", "recycle", "sendMsg"}
       /\ lastDgram'.what = "sendMsg" =>
            /\ lastDgram'.to \in conns \cup {c \in Conns : connState[c] # "none"}
            /\ \E cid \in DOMAIN byConnID' : byConnID'[cid] = lastDgram'.to]_vars

\* A closing listener that still has a Conn has dropped an Initial.
C8_Witness ==
  /\ closing
  /\ conns # {}
  /\ lastDgram.what = "recycle"
  /\ \E c \in Conns : connState[c] = "none"

\* NEW_CONNECTION_ID frames with any Retire Prior To.
AnyFrames ==
  {[seq |-> a, retire |-> b, cid |-> x, token |-> peerToken(x)] :
     a \in 0..MaxRemoteSeq, b \in 0..MaxRemoteSeq, x \in 1..MaxRemoteCIDs}

\* C9: handling a NEW_CONNECTION_ID frame a second time right after the
\* first leaves remote, retireRemotePriorTo and needSend as the first left
\* them, queues no change of the registered reset tokens, and returns what
\* the first returned.
C9_HandleNewConnIDIdempotent ==
  \A c \in Conns :
    connIDState[c].remoteLen > 0 =>
      \A f \in AnyFrames :
        LET r1 == handleNewConnID(connIDState[c], c, f)
            r2 == handleNewConnID(r1.s, c, f)
        IN /\ r2.s = r1.s
           /\ r2.q = <<>>
           /\ r2.err = r1.err

\* A Conn that holds IDs from earlier frames, and a frame whose first
\* handling retires one of them and registers the token of a new one.
C9_Witness ==
  \E c \in Conns :
    /\ connState[c] = "open"
    /\ connIDState[c].remoteLen >= 2
    /\ \E f \in AnyFrames :
         LET r1 == handleNewConnID(connIDState[c], c, f)
         IN /\ r1.err = "nil"
            /\ r1.s.remoteLen > connIDState[c].remoteLen
            /\ \E k \in 1..Len(r1.q) :
                 r1.q[k].kind \in {"retireResetToken", "retireResetTokenAt"}
            /\ \E k \in 1..Len(r1.q) : r1.q[k].kind = "addResetToken"

\* C10: a remote entry is retired only if its seq is below
\* retireRemotePriorTo; retireRemotePriorTo never decreases, and a frame
\* that is not refused for a zero-length destination ID leaves it at the
\* larger of its old value and the frame's Retire Prior To.
C10_RetiredBelowRetirePriorTo ==
  /\ [](\A c \in Conns :
          LET s == connIDState[c] IN
          /\ \A i \in 1..s.remoteLen :
               s.remote[i].retired => s.remote[i].seq < s.retireRemotePriorTo
          /\ (s.remoteLen > 0 /\ s.remote[1].cid # 0) =>
               \A f \in AnyFrames :
                 handleNewConnID(s, c, f).s.retireRemotePriorTo =
                   Max(s.retireRemotePriorTo, f.retire))
  /\ [][\A c \in Conns :
          connIDState'[c].retireRemotePriorTo >=
            connIDState[c].retireRemotePriorTo]_vars

\* After a frame with a lower Retire Prior To than an earlier one: an entry
\* below retireRemotePriorTo is retired, one at or above it is in use.
C10_Witness ==
  \E c \in Conns :
    LET s == connIDState[c] IN
    /\ s.retireRemotePriorTo > 0
    /\ \E i \in 1..s.remoteLen : s.remote[i].retired
    /\ \E i \in 1..s.remoteLen :
         /\ ~s.remote[i].retired
         /\ s.remote[i].seq >= s.retireRemotePriorTo

\* C11: a NEW_CONNECTION_ID frame whose seq remote already holds with
\* another connection ID makes handleNewConnID return PROTOCOL_VIOLATION,
\* leaves the sequence numbers and connection IDs of remote as they were
\* (no entry appended) and queues no addResetToken.
C11_SeqReuseIsProtocolViolation ==
  \A c \in Conns :
    LET s == connIDState[c] IN
    \A f \in AnyFrames :
      (\E i \in 1..s.remoteLen :
         s.remote[i].seq = f.seq /\ s.remote[i].cid # f.cid) =>
        LET r == handleNewConnID(s, c, f)
        IN /\ r.err = "PROTOCOL_VIOLATION"
           /\ r.s.remoteLen = s.remoteLen
           /\ \A i \in 1..s.remoteLen :
                /\ r.s.remote[i].seq = s.remote[i].seq
                /\ r.s.remote[i].cid = s.remote[i].cid
           /\ \A k \in 1..Len(r.q) : r.q[k].kind # "addResetToken"

\* A Conn that held two IDs of its peer or more, within both limits, has
\* been closed by a frame: the frame reused a sequence number for another
\* connection ID (the other errors of handleNewConnID leave remote over a
\* limit or come with a zero-length first ID, held alone).
C11_Witness ==
  \E c \in Conns :
    LET s == connIDState[c] IN
    /\ connState[c] = "closing"
    /\ s.remoteLen >= 2
    /\ s.remote[1].cid # 0
    /\ activeRemote(s) <= activeConnIDLimit
    /\ s.remoteLen <= 4 * activeConnIDLimit
    /\ \E f \in AnyFrames, i \in 1..s.remoteLen :
         s.remote[i].seq = f.seq /\ s.remote[i].cid # f.cid

\* The receive loop has just handled a datagram for a destination that is
\* not in byConnID; tokenKnown says whether its last 16 bytes are a token
\* in byResetToken.  Both maps are the ones the look-up used: the loop
\* applies the queued updates first.
unknownDestination(d, tokenKnown) ==
  /\ d.dstOk
  /\ d.dst \notin DOMAIN byConnID'
  /\ (d.tail \in DOMAIN byResetToken') = tokenKnown

\* The step creates no Conn.
noConnCreated == conns' = conns /\ connState' = connState

\* C12: a datagram of minimumValidPacketSize bytes or more for an unknown
\* destination whose last 16 bytes are a token of byResetToken makes the
\* listener deliver a stateless-reset event to the Conn the token maps to
\* and to no other, send nothing and create no Conn, whatever its header
\* form and version.
C12_KnownTokenGoesToItsConn ==
  [][rcvd' # <<>> =>
       LET d == rcvd'[1] IN
       (unknownDestination(d, TRUE) /\ d.n >= minimumValidPacketSize) =>
         /\ lastDgram' =
              outcome("statelessResetEvent", byResetToken'[d.tail], 0)
         /\ sent' = <<>>
         /\ noConnCreated]_vars

\* A padded long-header packet of an unsupported version that ends in the
\* token of Conn 1 was handed to Conn 1 as a stateless reset.
C12_Witness ==
  /\ rcvd # <<>>
  /\ rcvd[1].long /\ rcvd[1].parse
  /\ rcvd[1].version \notin {0, quicVersion1}
  /\ rcvd[1].n >= paddedInitialDatagramSize
  /\ rcvd[1].dst \notin DOMAIN byConnID
  /\ lastDgram = outcome("statelessResetEvent", 1, 0)
  /\ sent = <<>>

\* C13, as stated: a parseable long-header datagram of
\* minimumValidPacketSize bytes or more, for an unknown destination, with
\* no known token and a version other than 0 and QUIC v1, is answered with
\* one Version Negotiation packet and creates no Conn.
C13_VersionNegotiationFrom21Bytes ==
  [][rcvd' # <<>> =>
       LET d == rcvd'[1] IN
       (/\ unknownDestination(d, FALSE)
        /\ d.long /\ d.parse
        /\ d.n >= minimumValidPacketSize
        /\ d.version \notin {0, quicVersion1}) =>
         /\ sent' = <<[kind |-> "versionNegotiation", dst |-> d.src,
                       src |-> d.dst, versions |-> <<quicVersion1>>,
                       size |-> 0]>>
         /\ noConnCreated]_vars

\* C13, amended: such a datagram of paddedInitialDatagramSize bytes or
\* more is answered with exactly one Version Negotiation packet, whose
\* source is the datagram's destination ID, whose destination is its source
\* ID and which lists QUIC v1, and creates no Conn.
C13_VersionNegotiationWhenPadded ==
  [][rcvd' # <<>> =>
       LET d == rcvd'[1] IN
       (/\ unknownDestination(d, FALSE)
        /\ d.long /\ d.parse
        /\ d.n >= paddedInitialDatagramSize
        /\ d.version \notin {0, quicVersion1}) =>
         /\ sent' = <<[kind |-> "versionNegotiation", dst |-> d.src,
                       src |-> d.dst, versions |-> <<quicVersion1>>,
                       size |-> 0]>>
         /\ noConnCreated]_vars

\* A Version Negotiation packet went out in answer to a padded datagram
\* while the listener had a Conn.
C13_Witness ==
  /\ rcvd # <<>>
  /\ rcvd[1].version \notin {0, quicVersion1}
  /\ rcvd[1].n >= paddedInitialDatagramSize
  /\ Len(sent) = 1
  /\ sent[1].kind = "versionNegotiation"
  /\ sent[1].src = rcvd[1].dst
  /\ conns # {}

\* Whether the chain of stateless resets that starts with a datagram of n
\* bytes, each reset answered by an endpoint that runs this code with a
\* reset key, ends within k resets.
RECURSIVE chainEnds(_, _)
chainEnds(n, k) ==
  IF maybeSendStatelessReset(n, TRUE) = 0 THEN TRUE
  ELSE IF k = 0 THEN FALSE
  ELSE chainEnds(maybeSendStatelessReset(n, TRUE), k - 1)

\* C14: a short-header datagram of n bytes for an unknown destination, with
\* no known token, is answered with nothing when no reset key is configured
\* or n < 1 + connIDLen + 1 + 1 + 16, and otherwise with exactly one
\* stateless reset of min(n - 1, 42) bytes, which is shorter than n; a chain
\* of resets answering resets ends within n resets.
C14_ResetShorterThanDatagram ==
  [][rcvd' # <<>> =>
       LET d == rcvd'[1] IN
       (unknownDestination(d, FALSE) /\ ~d.long) =>
         IF ~config.canReset \/ d.n < 1 + connIDLen + 1 + 1 + 16
         THEN sent' = <<>>
         ELSE /\ Len(sent') = 1
              /\ sent'[1].kind = "statelessReset"
              /\ sent'[1].size = Min(d.n - 1, 42)
              /\ sent'[1].size < d.n
              /\ chainEnds(d.n, d.n)]_vars

\* The last reset of a chain: the answer to a datagram of the smallest
\* length that gets one, itself too short to be answered.
C14_Witness ==
  /\ rcvd # <<>>
  /\ ~rcvd[1].long
  /\ rcvd[1].n = minimumResetTrigger
  /\ Len(sent) = 1
  /\ sent[1].kind = "statelessReset"
  /\ sent[1].size = minimumResetTrigger - 1
  /\ maybeSendStatelessReset(sent[1].size, TRUE) = 0

\* C15: when Close returns ctx's error, exit has been called on every Conn
\* that was in conns then; and if every exited Conn calls connDrained in
\* the end, the socket is closed and the receive loop exits in the end.
C15_CancelledCloseStillClosesSocket ==
  /\ [][\A k \in Closers :
          (closePc[k] # "ctxErr" /\ closePc'[k] = "ctxErr") =>
            /\ closePc[k] = "waiting"
            /\ closing
            /\ \A c \in conns : connState'[c] = "exited"]_vars
  /\ \A k \in Closers :
       (closePc[k] = "ctxErr") ~> (udpClosed /\ closec)

\* Close has returned ctx's error while two Conns were in conns: both have
\* been told to exit, and the socket is still open.
C15_Witness ==
  /\ \E k \in Closers : closePc[k] = "ctxErr"
  /\ Cardinality(conns) = 2
  /\ \A c \in conns : connState[c] = "exited"
  /\ ~udpClosed
  /\ ~closec

\* C16: no closure passed to updateConnIDs is executed twice; a closure is
\* executed only by the receive loop, inside the loop of applyUpdates and
\* with updateMu held, and it is the closure next in updates; two closures
\* of one Conn are executed in the order the Conn made them.
C16_ClosuresRunOnceInOrder ==
  /\ [](\A i, j \in 1..Len(ran) :
          i < j =>
            /\ ran[i] # ran[j]
            /\ ran[i].c = ran[j].c => ran[i].cids[1] < ran[j].cids[1])
  /\ [][ran' # ran =>
          /\ loopPc = "run"
          /\ updateMu = <<"listen", 0>>
          /\ \A c \in Conns : connPc[c] \in {"idle", "call"}
          /\ ran' = Append(ran, updates[loopI])
          /\ \E c \in Conns, cid \in 1..(nextCID - 1) :
               updates[loopI] = closure("addConnID", c, <<cid>>, <<>>, 0)]_vars

\* The closures of both Conns were executed, one of Conn 2 before one that
\* Conn 1 made earlier.
C16_Witness ==
  /\ Len(ran) = MaxEnqueued
  /\ \E i, j \in 1..Len(ran) :
       /\ i < j
       /\ ran[i].c # ran[j].c
       /\ ran[i].cids[1] > ran[j].cids[1]
  /\ \E i, j \in 1..Len(ran) : i < j /\ ran[i].c = ran[j].c

\* C17: while updateMu is free, a non-empty updates comes with
\* updateNeeded set; and when the receive loop looks a datagram up, every
\* closure whose updateConnIDs call had returned when the loop read
\* updateNeeded has been executed and its connection ID is in byConnID.
C17_NoUpdateLost ==
  /\ (updateMu = <<>> /\ updates # <<>>) => updateNeeded
  /\ loopPc = "handle" =>
       \A f \in mustSee :
         /\ \E i \in 1..Len(ran) : ran[i] = f
         /\ f.cids[1] \in DOMAIN byConnID
         /\ byConnID[f.cids[1]] = f.c

\* The receive loop is about to look a datagram up, having applied two
\* closures; a third was queued after it read updateNeeded and waits for
\* the next datagram.
C17_Witness ==
  /\ loopPc = "handle"
  /\ Cardinality(mustSee) >= 2
  /\ updateMu = <<>>
  /\ updates # <<>>
  /\ \E f \in returned : f \notin mustSee

\* The token a queued closure of handleNewConnID unregisters if it runs
\* now.
tokenRead(f) ==
  IF f.kind = "retireResetTokenAt"
  THEN connIDState[f.c].remote[f.rcid].resetToken
  ELSE f.tokens[1]

\* The closures in updates that handleNewConnID queued for an entry it
\* retired.
retirements ==
  {k \in 1..Len(updates) :
     /\ updates[k].kind \in {"retireResetTokenAt", "retireResetToken"}
     /\ "own" \in DOMAIN updates[k]}

\* C18: when the receive loop applies the closure handleNewConnID queued
\* for an entry it retired, the token the closure takes out of byResetToken
\* is the reset token of that entry, whatever the Conn did to remote in
\* between.
C18_RetirementUnregistersOwnToken ==
  [][(rcvd' # <<>> /\ updateNeeded) =>
       \A k \in retirements : tokenRead(updates[k]) = updates[k].own]_vars

\* A closure queued for a retired entry is waiting, an entry before that
\* one has been removed on the ack of its RETIRE_CONNECTION_ID, and the
\* closure's pointer is at another entry now.
C18_Witness ==
  \E k \in retirements :
    LET f == updates[k] IN
    /\ f.kind = "retireResetTokenAt"
    /\ f.rcid <= connIDState[f.c].remoteLen
    /\ connIDState[f.c].remote[f.rcid].resetToken # f.own
    /\ ~connIDState[f.c].remote[f.rcid].retired
    /\ f.own \in DOMAIN byResetToken

\* connDrained(c) has run and the receive loop has since applied the queue:
\* a drained Conn queues nothing, so none of its closures is left.
drainApplied(c) ==
  /\ connState[c] = "drained"
  /\ \A k \in 1..Len(updates) : updates[k].c # c

\* The keys of a map that lead to Conn c.
keysOf(m, c) == {k \in DOMAIN m : m[k] = c}

\* C19: once connDrained(c) has run and the receive loop has applied the
\* pending updates, no entry of byConnID and no entry of byResetToken maps
\* to c, whatever connection IDs c issued, retired, was given or had
\* acknowledged before.
C19_DrainedConnLeavesNoEntry ==
  \A c \in Conns :
    drainApplied(c) => keysOf(byConnID, c) = {} /\ keysOf(byResetToken, c) = {}

\* A drained Conn that had been given reset tokens and had retired some of
\* the peer's connection IDs, after the receive loop applied its updates.
C19_Witness ==
  \E c \in Conns :
    /\ drainApplied(c)
    /\ connIDState[c].retireRemotePriorTo > 0
    /\ connIDState[c].remoteLen > 0
    /\ \E i \in 1..connIDState[c].remoteLen :
         connIDState[c].remote[i].resetToken # 0

\* The sequence numbers of the entries of a list of connection IDs.
localSeqs(x) == {x[j].seq : j \in 1..Len(x)}

\* C20: handleRetireConnID(seq) with seq >= nextLocalSeq returns
\* PROTOCOL_VIOLATION and changes neither local, nextLocalSeq nor the queue
\* of updates.  Otherwise it returns no error, local no longer holds an
\* entry of that seq and keeps its other entries, the removal of the
\* entry's connection ID from the map is queued, every ID issued carries a
\* new sequence number and is queued for the map, and the local IDs other
\* than the transient one number min(peerActiveConnIDLimit,
\* maxPeerActiveConnIDLimit) again.
C20_RetireConnIDContract ==
  \A c \in Conns :
    connState[c] = "open" =>
      LET s == connIDState[c] IN
      \A seq \in 0..(MaxLocalSeqOne + 1) :
        LET r == handleRetireConnID(s, c, seq, nextCID) IN
        IF seq >= s.nextLocalSeq
        THEN /\ r.err = "PROTOCOL_VIOLATION"
             /\ r.s.local = s.local
             /\ r.s.nextLocalSeq = s.nextLocalSeq
             /\ r.q = <<>>
        ELSE /\ r.err = "nil"
             /\ seq \notin localSeqs(r.s.local)
             /\ \A j \in 1..Len(s.local) :
                  IF s.local[j].seq = seq
                  THEN \E k \in 1..Len(r.q) :
                         /\ r.q[k].kind = "retireConnID"
                         /\ r.q[k].c = c
                         /\ r.q[k].cids = <<s.local[j].cid>>
                  ELSE \E i \in 1..Len(r.s.local) : r.s.local[i] = s.local[j]
             /\ \A i \in 1..Len(r.s.local) :
                  r.s.local[i].seq \notin localSeqs(s.local) =>
                    /\ r.s.local[i].seq >= s.nextLocalSeq
                    /\ r.s.local[i].seq < r.s.nextLocalSeq
                    /\ \E k \in 1..Len(r.q) :
                         /\ r.q[k].kind = "addConnID"
                         /\ r.q[k].c = c
                         /\ \E n \in 1..Len(r.q[k].cids) :
                              r.q[k].cids[n] = r.s.local[i].cid
             /\ countedLocal(r.s) =
                  Min(s.peerActiveConnIDLimit, maxPeerActiveConnIDLimit)

\* An open Conn whose peer has retired one of its connection IDs: local
\* lacks a sequence number it issued, the removal is queued, and the IDs it
\* holds number the peer's limit again.
C20_Witness ==
  \E c \in Conns :
    LET s == connIDState[c] IN
    /\ connState[c] = "open"
    /\ s.peerActiveConnIDLimit > 1
    /\ \E seq \in 0..(s.nextLocalSeq - 1) : seq \notin localSeqs(s.local)
    /\ \E k \in 1..Len(updates) :
         updates[k].kind = "retireConnID" /\ updates[k].c = c
    /\ countedLocal(s) =
         Min(s.peerActiveConnIDLimit, maxPeerActiveConnIDLimit)

\* The transport parameters a peer can send: every field right or wrong.
AnyTransportParameters ==
  [originalDstConnID : 0..(2 * MaxConns + 1),
   retrySrcConnID : {0, 1},
   initialSrcConnID : 0..MaxRemoteCIDs,
   statelessResetToken : {-1} \cup 1..MaxRemoteCIDs]

\* The reset tokens of the entries of s.remote, in order.
tokensOf(s) == [i \in 1..s.remoteLen |-> s.remote[i].resetToken]

\* C21: validateTransportParameters returns TRANSPORT_PARAMETER_ERROR when
\* original_destination_connection_id or retry_source_connection_id
\* differs from what the Conn holds, or when remote[0] has seq 0 and
\* initial_source_connection_id differs from its connection ID; whenever
\* it returns an error no reset token of remote has changed and nothing is
\* queued; when it returns no error to a client whose peer sent a token,
\* remote[0] carries that token and one addResetToken of it is queued.
C21_TransportParametersContract ==
  \A c \in Conns :
    connState[c] = "open" =>
      LET s == connIDState[c] IN
      \A p \in AnyTransportParameters :
        LET r == validateTransportParameters(s, c, side[c], p)
            mismatch ==
              \/ p.originalDstConnID # s.originalDstConnID
              \/ p.retrySrcConnID # s.retrySrcConnID
              \/ /\ s.remoteLen > 0
                 /\ s.remote[1].seq = 0
                 /\ p.initialSrcConnID # s.remote[1].cid
        IN /\ mismatch => r.err = "TRANSPORT_PARAMETER_ERROR"
           /\ r.err # "nil" => r.q = <<>> /\ tokensOf(r.s) = tokensOf(s)
           /\ (r.err = "nil" /\ side[c] = "client"
                 /\ p.statelessResetToken # -1) =>
                /\ r.s.remote[1].resetToken = p.statelessResetToken
                /\ r.q = <<closure("addResetToken", c, <<>>,
                                   <<p.statelessResetToken>>, 0)>>

\* A client has accepted its peer's transport parameters: remote[0] carries
\* the token they gave and its registration is in the queue.
C21_Witness ==
  \E c \in Conns :
    LET s == connIDState[c] IN
    /\ connState[c] = "open"
    /\ side[c] = "client"
    /\ s.originalDstConnID = 0
    /\ s.remoteLen = 1 /\ s.remote[1].seq = 0 /\ s.remote[1].resetToken # 0
    /\ \E k \in 1..Len(updates) :
         /\ updates[k].kind = "addResetToken"
         /\ updates[k].c = c
         /\ updates[k].tokens = <<s.remote[1].resetToken>>

\* C22: the buffer of every datagram the receive loop reads is either
\* handed to one Conn with sendMsg or recycled once by the loop, never both
\* and never twice, and it is handed over exactly when the loop found the
\* Conn of its destination connection ID or made a Conn for it.
C22_DatagramDisposedOnce ==
  [][rcvd' # <<>> =>
       /\ Len(disposal'.handed) + disposal'.recycled = 1
       /\ disposal'.handed # <<>> <=>
            lastDgram'.what \in {"sendMsg", "newConn"}
       /\ disposal'.handed # <<>> => disposal'.handed = <<lastDgram'.to>>]_vars

\* The loop has made a Conn for an Initial packet and handed it the buffer.
C22_Witness ==
  /\ rcvd # <<>>
  /\ lastDgram.what = "newConn"
  /\ disposal = disposed(<<lastDgram.to>>, 0)

\* The connection IDs a server Conn was admitted with and still holds: the
\* client's transient one (seq -1) and the first of its own (seq 0).
admittedCIDs(c) ==
  IF side[c] = "server" /\ connState[c] \in {"open", "closing", "exited"}
  THEN {connIDState[c].local[i].cid :
          i \in {j \in 1..Len(connIDState[c].local) :
                   connIDState[c].local[j].seq \in {-1, 0}}}
  ELSE {}

\* C23: from the step after the one that made server Conn c for an Initial
\* packet, every datagram the receive loop reads whose destination is the
\* packet's connection ID or the one c chose goes to c with sendMsg and no
\* Conn is made for it, as long as c has not retired that connection ID
\* (first Handshake packet, RETIRE_CONNECTION_ID, connDrained).
C23_AdmittedConnKeepsItsDatagrams ==
  [][\A c \in Conns :
       (/\ rcvd' # <<>>
        /\ rcvd'[1].dstOk
        /\ rcvd'[1].dst \in admittedCIDs(c)) =>
         /\ lastDgram' = outcome("sendMsg", c, 0)
         /\ disposal' = disposed(<<c>>, 0)
         /\ \A x \in Conns : connState[x] = "none" => connState'[x] = "none"]_vars

\* A datagram for the transient connection ID of a server Conn has just
\* gone to that Conn, while a second Conn exists.
C23_Witness ==
  \E c \in Conns :
    /\ side[c] = "server"
    /\ connState[c] = "open"
    /\ rcvd # <<>>
    /\ lastDgram = outcome("sendMsg", c, 0)
    /\ Len(connIDState[c].local) > 0
    /\ connIDState[c].local[1].seq = -1
    /\ rcvd[1].dst = connIDState[c].local[1].cid
    /\ \E x \in Conns \ {c} : connState[x] = "open"

\* The Conn has learnt its peer's first connection ID: remote holds no
\* transient entry (seq -1) and dstConnID finds an ID to send to.
remoteEstablished(s) ==
  /\ s.remoteLen > 0
  /\ \A i \in 1..s.remoteLen : s.remote[i].seq # -1
  /\ dstConnID(s).ok

\* C24: once remote holds the peer's connection ID of seq 0, every step
\* that leaves the Conn open (a NEW_CONNECTION_ID frame with retire prior
\* to <= seq handled without error, a RETIRE_CONNECTION_ID frame sent,
\* acked or lost) leaves remote with an entry that is not retired:
\* dstConnID returns ok and remote[0] exists.
C24_RemoteKeepsAnActiveID ==
  [][\A c \in Conns :
       (remoteEstablished(connIDState[c]) /\ connState'[c] = "open") =>
         remoteEstablished(connIDState'[c])]_vars

\* The peer has replaced every connection ID the Conn began with: the
\* Conn's RETIRE_CONNECTION_ID of seq 0 was acked and the entry removed,
\* a later one is retired too, and one that is not retired is left.
C24_Witness ==
  \E c \in Conns :
    LET s == connIDState[c] IN
    /\ connState[c] = "open"
    /\ remoteEstablished(s)
    /\ s.retireRemotePriorTo >= 2
    /\ \A i \in 1..s.remoteLen : s.remote[i].seq # 0
    /\ \E i \in 1..s.remoteLen : s.remote[i].retired
    /\ activeRemote(s) = 1

\* An entry waits for its frame: it was never sent, or its frame was lost.
waiting(v) == v.st = "unsent"

\* C25: in every state in which needSend is false, no local connection ID
\* waits for its NEW_CONNECTION_ID frame and no retired remote one for its
\* RETIRE_CONNECTION_ID frame; and a call of appendFrames that switches
\* needSend off leaves no entry waiting, while a lost frame switches it on.
C25_NothingWaitsWhenNeedSendIsOff ==
  /\ [](\A c \in Conns :
          LET s == connIDState[c] IN
          (connState[c] # "none" /\ ~s.needSend) =>
            /\ \A i \in 1..Len(s.local) : ~waiting(s.local[i].send)
            /\ \A i \in 1..s.remoteLen : ~waiting(s.remote[i].send))
  /\ [][\A c \in Conns :
          LET s == connIDState[c]
              n == connIDState'[c]
          IN ((\E i \in 1..Len(n.local) :
                 i <= Len(s.local) /\ n.local[i] = [s.local[i] EXCEPT
                                                       !.send = setUnsent(@)]
                 /\ s.local[i].send.st = "sent")
              \/ (\E i \in 1..n.remoteLen :
                    i <= s.remoteLen /\ s.remote[i].send.st = "sent"
                    /\ n.remote[i] = [s.remote[i] EXCEPT
                                        !.send = setUnsent(@)]))
             => n.needSend]_vars

\* appendFrames has just sent the last frame that was waiting and switched
\* needSend off, after a packet without room for all of them and a loss:
\* a local ID and a retired remote ID are in flight in different packets.
C25_Witness ==
  \E c \in Conns :
    LET s == connIDState[c] IN
    /\ connState[c] = "open"
    /\ ~s.needSend
    /\ \E i \in 1..Len(s.local), j \in 1..s.remoteLen :
         /\ s.local[i].send.st = "sent"
         /\ s.remote[j].retired
         /\ s.remote[j].send.st = "sent"
         /\ s.local[i].send.pnum # s.remote[j].send.pnum

=============================================================================
